---------------------------- MODULE Spec2Model ----------------------------
(***************************************************************************)
(* Pump detection, strategy back-testing and bot trading of bot_x1.         *)
(*                                                                          *)
(* Units.  Python floats are kept as exact fixed-point integers:            *)
(*   prices            1/1000 USDT   (100000 is 100 USDT)                   *)
(*   quantities        1/1000 coin                                          *)
(*   pnl_usdt          1/1000000 USDT (price unit times quantity unit)      *)
(*   percentages, ratios, RSI, momentum   1/100  (300 is 3.0)               *)
(*   clock and candle timestamps          seconds                           *)
(* The input prices are chosen so that every percentage of a price the      *)
(* code computes is a whole number of price units.                          *)
(***************************************************************************)
EXTENDS Integers, Sequences, FiniteSets, TLC

VARIABLES
    now,               \* time.time() / datetime.now(), in seconds
    candle_history,    \* PumpDetector.candle_history[symbol][interval]
    recent_pumps,      \* PumpDetector.recent_pumps: symbol -> time of the last signal
    emitted,           \* the signals PumpDetector has notified, oldest first
    analysed,          \* the path the last analyze_pump_realtime took
    signal_tasks,      \* on_pump_detected tasks created and not yet run, oldest first
    candle_buffer,     \* StrategyManager.candle_buffer[symbol][interval]
    strategies,        \* StrategyManager.strategies: id -> TradingStrategy state
    symbol_to_strategies, \* the symbol index of the dispatcher: symbol -> strategy ids
    bots,              \* BotManager.bots: id -> TradingBot state
    trades,            \* the trades table, row i holding the Trade of id i
    conf,              \* a call of calculate_confidence: its arguments and result
    tick,              \* the last tick the socket delivered
    delivered,         \* the last signal on_pump_signal_detected handled
    sock,              \* the market socket: its tasks on the event loop and its counters
    rankings,          \* StrategyManager.top_strategies, best_strategy, best_long, best_short
    decision,          \* a call of should_enter: the configuration, the signal and the two results
    callback_tasks,    \* on_candle_update tasks of the socket in flight, oldest first
    tele,              \* the TelegramMessageQueue: its queue, buffer, timers and send tasks
    nfeeds,            \* number of ticks fed so far
    nticks,            \* number of clock advances so far
    nsignals           \* number of signals handled so far

detVars == <<candle_history, recent_pumps, emitted, analysed, signal_tasks>>
mgrVars == <<candle_buffer, strategies, symbol_to_strategies>>
botVars == <<bots, trades>>
vars == <<now, candle_history, recent_pumps, emitted, analysed, signal_tasks,
          candle_buffer, strategies, symbol_to_strategies, bots, trades, conf,
          tick, delivered, sock, rankings, decision, callback_tasks, tele, nfeeds, nticks, nsignals>>

---------------------------------------------------------------------------
(* Bounds of the model *)

MaxFeeds == 3
MaxTicks == 2
MaxCandles == 2
MaxMinutes == 1
MaxSignals == 2
MaxNotifies == 51
\* signals, candles and minutes of one run of the trading layer
MaxSteps == 5
\* the clock steps a long hold waits for its signal
MaxIdleSteps == 1
HistoryCap == 1

---------------------------------------------------------------------------
(* Python helpers *)

\* None, for a value that is otherwise a number >= 0
None == 0 - 1

Min2(a, b) == IF a <= b THEN a ELSE b
Max2(a, b) == IF a >= b THEN a ELSE b
Abs(a) == IF a < 0 THEN -a ELSE a

\* s[start:stop] of Python on the 1-based sequence s (negative indices count
\* from the end, both ends are clamped).
PySlice(s, start, stop) ==
    LET n  == Len(s)
        lo == IF start < 0 THEN Max2(n + start, 0) ELSE Min2(start, n)
        hi == IF stop < 0 THEN Max2(n + stop, 0) ELSE Min2(stop, n)
    IN  IF lo >= hi THEN <<>> ELSE SubSeq(s, lo + 1, hi)

RECURSIVE SumSeq(_)
SumSeq(s) == IF s = <<>> THEN 0 ELSE s[1] + SumSeq(Tail(s))

Volumes(cs) == [i \in 1..Len(cs) |-> cs[i].volume]
Closes(cs) == [i \in 1..Len(cs) |-> cs[i].close]

\* round(): n/d to the nearest integer, ties to the even one (d > 0, n >= 0
\* or n < 0).
PyRound(n, d) ==
    LET q == n \div d
        r == n % d
    IN  IF 2 * r < d THEN q
        ELSE IF 2 * r > d THEN q + 1
        ELSE IF q % 2 = 0 THEN q ELSE q + 1

---------------------------------------------------------------------------
(* PumpDetector: configuration *)

HistoryMaxLen == 100
pump_lookback_candles == 20
pump_cooldown_seconds == 600
price_increase_1m == 300
price_increase_5m == 800
volume_spike_multiplier == 300
min_volume_usdt == 50000
rsi_period == 14
rsi_overbought == 7000
momentum_threshold == 200
min_confidence == 70
recent_pump_price_threshold == 500
recent_pump_volume_threshold == 300
MinCandles1m == 20
candle_interval_seconds == 60

---------------------------------------------------------------------------
(* PumpDetector: metrics.  Every metric is in hundredths. *)

\* calculate_price_change_realtime(candles, periods)
calculate_price_change_realtime(candles, periods) ==
    IF Len(candles) < periods + 1 THEN 0
    ELSE LET old_price == candles[Len(candles) - periods].close
             new_price == candles[Len(candles)].close
         IN  IF old_price = 0 THEN 0
             ELSE ((new_price - old_price) * 10000) \div old_price

\* calculate_volume_spike_realtime(candles), read at clock t
calculate_volume_spike_realtime(candles, t) ==
    IF Len(candles) < 10 THEN 100
    ELSE LET current_candle == candles[Len(candles)]
             elapsed_seconds == t - current_candle.timestamp
             \* time_ratio is elapsed/60 capped at 1.0 (1 when elapsed <= 0); the
             \* volume is divided by it when it exceeds 0.1.  In hundredths of a coin:
             normalized_current_volume ==
                 IF elapsed_seconds > 0
                    /\ elapsed_seconds * 10 > candle_interval_seconds
                    /\ elapsed_seconds < candle_interval_seconds
                 THEN (current_candle.volume * candle_interval_seconds * 100)
                          \div elapsed_seconds
                 ELSE current_candle.volume * 100
             prior == PySlice(candles, -20, -1)
             total == SumSeq(Volumes(prior))
         IN  IF total = 0 THEN 100
             ELSE (normalized_current_volume * Len(prior)) \div total

\* The pair (recent_candles[i-1], recent_candles[i]) of has_recent_pump, with
\* i the 0-based index of the Python loop.
RecentPumpPair(recent_candles, i) ==
    LET candle      == recent_candles[i + 1]
        prev_candle == recent_candles[i]
        \* dividing by a close of 0 raises: has_recent_pump_raises
        price_change == IF prev_candle.close = 0 THEN 0
                        ELSE ((candle.close - prev_candle.close) * 10000)
                                 \div prev_candle.close
        window == PySlice(recent_candles, i - 10, i)
        total  == SumSeq(Volumes(window))
        volume_ratio == IF i >= 10
                        THEN IF total > 0
                             THEN (candle.volume * 100 * Len(window)) \div total
                             ELSE 100
                        ELSE 100
    IN  /\ price_change >= recent_pump_price_threshold
        /\ volume_ratio >= recent_pump_volume_threshold

\* Whether has_recent_pump(symbol) raises ZeroDivisionError: the scan reaches
\* a pair whose earlier candle closed at 0.0 before it has returned True.
has_recent_pump_raises(candles) ==
    IF Len(candles) < pump_lookback_candles + 1 THEN FALSE
    ELSE LET recent_candles == PySlice(candles, -(pump_lookback_candles + 1), -1)
         IN  \E i \in 1..(Len(recent_candles) - 1) :
                 /\ recent_candles[i].close = 0
                 /\ \A j \in 1..(i - 1) : ~RecentPumpPair(recent_candles, j)

\* has_recent_pump(symbol) on the Min1 candles of the symbol, when it returns
has_recent_pump(candles) ==
    IF Len(candles) < pump_lookback_candles + 1 THEN FALSE
    ELSE LET recent_candles == PySlice(candles, -(pump_lookback_candles + 1), -1)
         IN  \E i \in 1..(Len(recent_candles) - 1) :
                 RecentPumpPair(recent_candles, i)

\* A detector without cooldown: C2 is tested against it.
is_in_cooldown_never(pumps, symbol, t) == FALSE

\* is_in_cooldown(symbol) at clock t
is_in_cooldown(pumps, symbol, t) ==
    IF symbol \notin DOMAIN pumps THEN FALSE
    ELSE t - pumps[symbol] < pump_cooldown_seconds

\* calculate_rsi(candles): None, or the RSI in hundredths
calculate_rsi(candles) ==
    IF Len(candles) < rsi_period + 1 THEN None
    ELSE LET prices == Closes(PySlice(candles, -(rsi_period + 1), Len(candles)))
             deltas == [i \in 1..(Len(prices) - 1) |-> prices[i + 1] - prices[i]]
             gains  == SumSeq([i \in 1..Len(deltas) |->
                                  IF deltas[i] > 0 THEN deltas[i] ELSE 0])
             losses == SumSeq([i \in 1..Len(deltas) |->
                                  IF deltas[i] < 0 THEN -deltas[i] ELSE 0])
         IN  IF losses = 0 THEN 10000
             ELSE (gains * 10000) \div (gains + losses)

\* calculate_momentum(candles)
calculate_momentum(candles) ==
    IF Len(candles) < 5 THEN 0
    ELSE LET n == Len(candles)
             recent_change   == candles[n].close - candles[n - 2].close
             previous_change == candles[n - 2].close - candles[n - 4].close
         IN  IF previous_change = 0 THEN 0
             ELSE (recent_change * 100) \div Abs(previous_change)

\* calculate_buy_pressure(candles)
calculate_buy_pressure(candles) ==
    IF Len(candles) < 10 THEN 0
    ELSE LET recent_candles == PySlice(candles, -10, Len(candles))
             green_candles == Cardinality({i \in 1..Len(recent_candles) :
                                  recent_candles[i].close > recent_candles[i].open})
         IN  (green_candles * 10000) \div Len(recent_candles)

\* The sum of the five component scores, in 1/300 of a point.
ConfidenceRaw(price_1m, price_5m, volume_ratio, rsi, momentum, buy_pressure) ==
    LET price_score  == Min2(30 * 300, (price_1m * 15 * 300) \div price_increase_1m)
                        + (IF price_5m >= price_increase_5m THEN 15 * 300 ELSE 0)
        volume_score == Min2(25 * 300,
                             (volume_ratio * 25 * 300) \div volume_spike_multiplier)
        rsi_score    == IF rsi # None /\ rsi # 0 /\ rsi >= rsi_overbought THEN 15 * 300
                        ELSE IF rsi # None /\ rsi # 0 /\ rsi >= 6000 THEN 10 * 300
                        ELSE 0
        mom_score    == IF momentum >= momentum_threshold THEN 15 * 300
                        ELSE IF momentum >= 100 THEN 10 * 300
                        ELSE 0
        bp_score     == IF buy_pressure >= 8000 THEN 15 * 300
                        ELSE IF buy_pressure >= 6000 THEN 10 * 300
                        ELSE 0
    IN  price_score + volume_score + rsi_score + mom_score + bp_score

\* calculate_confidence(price_1m, price_5m, volume_ratio, rsi, momentum, buy_pressure)
calculate_confidence(price_1m, price_5m, volume_ratio, rsi, momentum, buy_pressure) ==
    Min2(100, PyRound(ConfidenceRaw(price_1m, price_5m, volume_ratio, rsi,
                                    momentum, buy_pressure), 300))

---------------------------------------------------------------------------
(* PumpDetector: on_candle_update and analyze_pump_realtime *)

Symbols == {"A", "B"}
Intervals == {"Min1", "Min5"}

\* A deque without maxlen: C34 is tested against it.
DequeAppend_unbounded(history, candle) == Append(history, candle)

\* deque(maxlen=100).append
DequeAppend(history, candle) ==
    IF Len(history) >= HistoryMaxLen THEN Append(Tail(history), candle)
    ELSE Append(history, candle)

\* history[-1] = candle
ReplaceLast(history, candle) == [history EXCEPT ![Len(history)] = candle]

\* A buffer that appends every tick that is not older: C4 is tested against it.
DetectorBuffer_appending(history, candle) ==
    IF Len(history) = 0 \/ candle.timestamp >= history[Len(history)].timestamp
    THEN DequeAppend(history, candle)
    ELSE history

\* The buffer of (symbol, interval) after on_candle_update has taken the tick.
DetectorBuffer(history, candle) ==
    IF Len(history) = 0 THEN Append(history, candle)
    ELSE IF candle.timestamp > history[Len(history)].timestamp
         THEN DequeAppend(history, candle)
    ELSE IF candle.timestamp = history[Len(history)].timestamp
         THEN ReplaceLast(history, candle)
    ELSE history

\* An analysis on the ticks of every interval, the first tick of a buffer
\* included: C30 is tested against it.
DetectorAnalyses_every_interval(history, interval, candle) ==
    Len(history) = 0 \/ candle.timestamp >= history[Len(history)].timestamp

\* Whether on_candle_update calls analyze_pump_realtime for the tick.
DetectorAnalyses(history, interval, candle) ==
    /\ Len(history) > 0
    /\ candle.timestamp >= history[Len(history)].timestamp
    /\ interval = "Min1"

\* A gate that ignores the volume ratio: C7 is tested against it.
is_pump_any_ratio(price_change_1m, volume_ratio, current_volume_usdt) ==
    /\ price_change_1m >= price_increase_1m
    /\ current_volume_usdt >= min_volume_usdt * 1000

\* The pump gate (is_pump) on the metrics.
is_pump(price_change_1m, volume_ratio, current_volume_usdt) ==
    /\ price_change_1m >= price_increase_1m
    /\ volume_ratio >= volume_spike_multiplier
    /\ current_volume_usdt >= min_volume_usdt * 1000

\* The pump_signal dict built by analyze_pump_realtime.
PumpSignal(symbol, candles_1m, candles_5m, t, is_new_candle) ==
    LET current_candle  == candles_1m[Len(candles_1m)]
        price_change_1m == calculate_price_change_realtime(candles_1m, 1)
        price_change_5m == IF Len(candles_5m) >= 5
                           THEN calculate_price_change_realtime(candles_5m, 5)
                           ELSE 0
        volume_ratio    == calculate_volume_spike_realtime(candles_1m, t)
        rsi             == calculate_rsi(candles_1m)
        momentum        == calculate_momentum(candles_1m)
        buy_pressure    == calculate_buy_pressure(candles_1m)
    IN  [symbol           |-> symbol,
         candle_timestamp |-> current_candle.timestamp,
         price            |-> current_candle.close,
         price_change_1m  |-> price_change_1m,
         price_change_5m  |-> price_change_5m,
         volume_ratio     |-> volume_ratio,
         volume_usdt      |-> current_candle.volume * current_candle.close,
         rsi              |-> IF rsi = None \/ rsi = 0 THEN None ELSE rsi,
         momentum         |-> momentum,
         buy_pressure     |-> buy_pressure,
         confidence       |-> calculate_confidence(price_change_1m, price_change_5m,
                                  volume_ratio, rsi, momentum, buy_pressure),
         is_new_candle    |-> is_new_candle]

\* An analysis without its try block: C15 is tested against it.
AnalysisResult_uncaught(pumps, symbol, candles_1m, candles_5m, t) ==
    IF is_in_cooldown(pumps, symbol, t) THEN "cooldown"
    ELSE IF has_recent_pump_raises(candles_1m) THEN "propagated"
    ELSE IF has_recent_pump(candles_1m) THEN "recent_pump"
    ELSE IF Len(candles_1m) < MinCandles1m THEN "short"
    ELSE LET sig == PumpSignal(symbol, candles_1m, candles_5m, t, FALSE)
         IN  IF ~is_pump(sig.price_change_1m, sig.volume_ratio, sig.volume_usdt)
             THEN "no_pump"
             ELSE IF sig.confidence >= min_confidence THEN "signal"
             ELSE "low_confidence"

\* The path analyze_pump_realtime takes on the buffers it reads at clock t;
\* "error" when an exception reached its except clause, which logs it.
AnalysisResult(pumps, symbol, candles_1m, candles_5m, t) ==
    IF is_in_cooldown(pumps, symbol, t) THEN "cooldown"
    ELSE IF has_recent_pump_raises(candles_1m) THEN "error"
    ELSE IF has_recent_pump(candles_1m) THEN "recent_pump"
    ELSE IF Len(candles_1m) < MinCandles1m THEN "short"
    ELSE LET sig == PumpSignal(symbol, candles_1m, candles_5m, t, FALSE)
         IN  IF ~is_pump(sig.price_change_1m, sig.volume_ratio, sig.volume_usdt)
             THEN "no_pump"
             ELSE IF sig.confidence >= min_confidence THEN "signal"
             ELSE "low_confidence"

\* recent_pumps[symbol] = time.time()
MarkPump(pumps, symbol, t) ==
    [s \in DOMAIN pumps \cup {symbol} |-> IF s = symbol THEN t ELSE pumps[s]]

\* A detector that marks the pump and creates no task for the callback: C31
\* is tested against it.
DetectorOnCandleUpdate_no_callback(symbol, interval, candle) ==
    LET history  == candle_history[symbol][interval]
        buffers  == [candle_history EXCEPT ![symbol][interval] =
                         DetectorBuffer(history, candle)]
        is_new   == Len(history) > 0 /\ candle.timestamp > history[Len(history)].timestamp
        result   == IF DetectorAnalyses(history, interval, candle)
                    THEN AnalysisResult(recent_pumps, symbol, buffers[symbol]["Min1"],
                                        buffers[symbol]["Min5"], now)
                    ELSE "none"
        signal   == PumpSignal(symbol, buffers[symbol]["Min1"], buffers[symbol]["Min5"],
                               now, is_new)
    IN  /\ candle_history' = buffers
        /\ analysed' = result
        /\ IF result = "signal"
           THEN /\ recent_pumps' = MarkPump(recent_pumps, symbol, now)
                /\ emitted' = Append(emitted, [at |-> now, signal |-> signal])
                /\ UNCHANGED signal_tasks
           ELSE UNCHANGED <<recent_pumps, emitted, signal_tasks>>

\* PumpDetector.on_candle_update(symbol, interval, candle_data)
DetectorOnCandleUpdate(symbol, interval, candle) ==
    LET history  == candle_history[symbol][interval]
        buffers  == [candle_history EXCEPT ![symbol][interval] =
                         DetectorBuffer(history, candle)]
        is_new   == Len(history) > 0 /\ candle.timestamp > history[Len(history)].timestamp
        result   == IF DetectorAnalyses(history, interval, candle)
                    THEN AnalysisResult(recent_pumps, symbol, buffers[symbol]["Min1"],
                                        buffers[symbol]["Min5"], now)
                    ELSE "none"
        signal   == PumpSignal(symbol, buffers[symbol]["Min1"], buffers[symbol]["Min5"],
                               now, is_new)
    IN  /\ candle_history' = buffers
        /\ analysed' = result
        /\ IF result = "signal"
           THEN /\ recent_pumps' = MarkPump(recent_pumps, symbol, now)
                /\ emitted' = Append(emitted, [at |-> now, signal |-> signal])
                /\ signal_tasks' = Append(signal_tasks, signal)
           ELSE UNCHANGED <<recent_pumps, emitted, signal_tasks>>

---------------------------------------------------------------------------
(* The market feed: the ticks and clock steps the model draws from *)

Candle(ts, o, h, l, c, v) ==
    [timestamp |-> ts, open |-> o, high |-> h, low |-> l, close |-> c, volume |-> v]

\* A closed candle that opened at o and closed at c.
Bar(ts, o, c, v) == Candle(ts, o, Max2(o, c), Min2(o, c), c, v)

\* n one-minute candles, one per minute from second 60 on.  Quiet: price 100
\* and volume 1000 throughout.  Pumped: price 95, and the candle before the
\* last one rose to 100 on four times the volume.
QuietHistory(n) == [i \in 1..n |-> Bar(60 * i, 100000, 100000, 1000)]
PumpedHistory(n) ==
    [i \in 1..n |-> IF i < n - 1 THEN Bar(60 * i, 95000, 95000, 1000)
                    ELSE IF i = n - 1 THEN Bar(60 * i, 95000, 100000, 4000)
                    ELSE Bar(60 * i, 100000, 100000, 1000)]

\* A quiet history whose candle before the last one came from a tick without
\* the field 'c': on_candle_update buffered it with close 0.0.
GlitchHistory(n) ==
    [i \in 1..n |-> IF i = n - 1 THEN Candle(60 * i, 100000, 100000, 100000, 0, 1000)
                    ELSE Bar(60 * i, 100000, 100000, 1000)]

\* Six five-minute candles at price 95.
History5m == [i \in 1..6 |-> Bar(300 * i, 95000, 95000, 5000)]

InitHistories1m == {QuietHistory(19), PumpedHistory(19), PumpedHistory(20)}

\* The shapes of a tick: open, close and volume.
Shapes1m == {
    [open |-> 100000, close |-> 100000, volume |-> 1000],   \* quiet
    [open |-> 100000, close |-> 103000, volume |-> 4000],   \* +3% on 4x volume
    [open |-> 100000, close |-> 106000, volume |-> 4000],   \* +6% on 4x volume
    [open |-> 100000, close |-> 106000, volume |-> 2000] }  \* +6% on 2x volume
Shapes5m == { [open |-> 95000, close |-> 106000, volume |-> 9000] }

\* The timestamp of a tick relative to the newest buffered candle: older,
\* the same candle, the next candle.
TsOffsets == {0 - 60, 0, 60}

\* The ticks of the feed: symbol, interval, shape and timestamp offset.  The
\* quiet tick and the 6% tick on 4x volume come at every offset, the other
\* Min1 shapes as a new candle; the Min5 tick and symbol B's tick update the
\* candle they belong to.
FeedInputs ==
    {<<"A", "Min1", sh, off>> : sh \in Shapes1m, off \in {60}}
        \cup {<<"A", "Min1", sh, off>> :
                 sh \in {[open |-> 100000, close |-> 100000, volume |-> 1000],
                         [open |-> 100000, close |-> 106000, volume |-> 4000]},
                 off \in TsOffsets}
        \cup {<<"A", "Min5", sh, 0>> : sh \in Shapes5m}
        \cup {<<"B", "Min1", [open |-> 100000, close |-> 106000, volume |-> 4000], 0>>}
TimeSteps == {30, 570}

TickCandle(history, shape, off) ==
    LET ts == IF Len(history) = 0 THEN 1200 ELSE history[Len(history)].timestamp + off
    IN  Bar(ts, shape.open, shape.close, shape.volume)

---------------------------------------------------------------------------
(* TradingStrategy *)

\* dict.get(key, default)
Get(d, key, default) == IF key \in DOMAIN d THEN d[key] ELSE default

\* The population: configurations drawn from the parameter grid of
\* StrategyManager.generate_strategies (percentages in whole percent,
\* thresholds in hundredths).
StrategyConfig(direction, tp, sl, trailing, trend) ==
    [direction |-> direction, take_profit |-> tp, stop_loss |-> sl,
     rsi_threshold |-> 7000, volume_multiplier |-> 300,
     price_increase_threshold |-> 200, min_confidence |-> 70,
     timeframe |-> "1m", trailing_stop |-> trailing,
     min_trend_strength |-> trend, require_breakout |-> FALSE,
     min_volume_consistency |-> 0, position_size_usdt |-> 50]

StrategyIds == {1, 2, 3}
\* A population as generate_strategies numbers it from two combinations of
\* the grid, the first with min_trend_strength 0.3: the LONG copies, then the
\* SHORT copies.
GridStrategyIds == {4, 5, 6, 7}
Config(id) ==
    IF id = 1 THEN StrategyConfig("LONG", 5, 2, FALSE, 0)
    ELSE IF id = 2 THEN StrategyConfig("SHORT", 5, 2, TRUE, 0)
    ELSE IF id = 3 THEN StrategyConfig("LONG", 10, 3, TRUE, 0)
    ELSE IF id = 4 THEN StrategyConfig("LONG", 5, 2, FALSE, 30)
    ELSE IF id = 5 THEN StrategyConfig("LONG", 5, 2, TRUE, 0)
    ELSE IF id = 6 THEN StrategyConfig("SHORT", 5, 2, FALSE, 30)
    ELSE StrategyConfig("SHORT", 5, 2, TRUE, 0)

\* TradingStrategy.__init__: balances and averages in 1/1000000 USDT, win_rate,
\* max_drawdown and profit_factor in hundredths
NewStrategy ==
    [active_positions |-> [s \in {} |-> 0],
     trade_history    |-> <<>>,
     pnl_history      |-> <<>>,
     total_trades     |-> 0,
     winning_trades   |-> 0,
     losing_trades    |-> 0,
     total_pnl        |-> 0,
     win_rate         |-> 0,
     avg_win          |-> 0,
     avg_loss         |-> 0,
     max_drawdown     |-> 0,
     profit_factor    |-> 0,
     peak_balance     |-> 1000 * 1000000,
     current_balance  |-> 1000 * 1000000]

\* Whether TradingStrategy.should_enter(signal) raises: it reaches the
\* comparison of trend_strength or of volume_consistency with the configured
\* minimum, and the signal holds None there (TypeError).
should_enter_raises(config, signal) ==
    LET price_change == IF config.timeframe = "1m"
                        THEN Get(signal, "price_change_1m", 0)
                        ELSE Get(signal, "price_change_5m", 0)
        rsi == Get(signal, "rsi", None)
        reaches_trend ==
            /\ Get(signal, "timeframe", "1m") = config.timeframe
            /\ ~(price_change < config.price_increase_threshold)
            /\ ~(Get(signal, "volume_ratio", 0) < config.volume_multiplier)
            /\ ~(rsi # None /\ rsi < config.rsi_threshold)
            /\ ~(Get(signal, "confidence", 0) < config.min_confidence)
        trend == Get(signal, "trend_strength", 0)
    IN  /\ reaches_trend
        /\ \/ config.min_trend_strength > 0 /\ trend = None
           \/ /\ ~(config.min_trend_strength > 0 /\ trend < config.min_trend_strength)
              /\ ~(config.require_breakout /\ ~Get(signal, "is_breakout", FALSE))
              /\ config.min_volume_consistency > 0
              /\ Get(signal, "volume_consistency", 0) = None

\* An entry test without the confidence threshold: C32 is tested against it.
should_enter_any_confidence(config, signal) ==
    LET price_change == IF config.timeframe = "1m"
                        THEN Get(signal, "price_change_1m", 0)
                        ELSE Get(signal, "price_change_5m", 0)
        rsi == Get(signal, "rsi", None)
    IN  /\ Get(signal, "timeframe", "1m") = config.timeframe
        /\ ~(price_change < config.price_increase_threshold)
        /\ ~(Get(signal, "volume_ratio", 0) < config.volume_multiplier)
        /\ ~(rsi # None /\ rsi < config.rsi_threshold)
        /\ ~(config.min_trend_strength > 0
             /\ Get(signal, "trend_strength", 0) < config.min_trend_strength)
        /\ ~(config.require_breakout /\ ~Get(signal, "is_breakout", FALSE))
        /\ ~(config.min_volume_consistency > 0
             /\ Get(signal, "volume_consistency", 0) < config.min_volume_consistency)

\* TradingStrategy.should_enter(signal), when it returns
should_enter(config, signal) ==
    LET price_change == IF config.timeframe = "1m"
                        THEN Get(signal, "price_change_1m", 0)
                        ELSE Get(signal, "price_change_5m", 0)
        rsi == Get(signal, "rsi", None)
    IN  /\ Get(signal, "timeframe", "1m") = config.timeframe
        /\ ~(price_change < config.price_increase_threshold)
        /\ ~(Get(signal, "volume_ratio", 0) < config.volume_multiplier)
        /\ ~(rsi # None /\ rsi < config.rsi_threshold)
        /\ ~(Get(signal, "confidence", 0) < config.min_confidence)
        /\ ~(config.min_trend_strength > 0
             /\ Get(signal, "trend_strength", 0) < config.min_trend_strength)
        /\ ~(config.require_breakout /\ ~Get(signal, "is_breakout", FALSE))
        /\ ~(config.min_volume_consistency > 0
             /\ Get(signal, "volume_consistency", 0) < config.min_volume_consistency)

\* price * (1 + pct/100) and price * (1 - pct/100)
PctUp(price, pct) == (price * (100 + pct)) \div 100
PctDown(price, pct) == (price * (100 - pct)) \div 100

\* position_size_usdt / entry_price, in 1/1000 coin
Quantity(position_size_usdt, entry_price) ==
    (position_size_usdt * 1000 * 1000) \div entry_price

\* The position TradingStrategy.enter_position stores.
NewPosition(config, symbol, entry_price, t) ==
    [symbol        |-> symbol,
     direction     |-> config.direction,
     entry_price   |-> entry_price,
     entry_time    |-> t,
     quantity      |-> Quantity(config.position_size_usdt, entry_price),
     take_profit   |-> IF config.direction = "LONG"
                       THEN PctUp(entry_price, config.take_profit)
                       ELSE PctDown(entry_price, config.take_profit),
     stop_loss     |-> IF config.direction = "LONG"
                       THEN PctDown(entry_price, config.stop_loss)
                       ELSE PctUp(entry_price, config.stop_loss),
     highest_price |-> entry_price,
     lowest_price  |-> entry_price]

\* d[key] = value and del d[key] on a dict kept as a function
DictSet(d, key, value) ==
    [k \in DOMAIN d \cup {key} |-> IF k = key THEN value ELSE d[k]]
DictDel(d, key) == [k \in DOMAIN d \ {key} |-> d[k]]

\* TradingStrategy.enter_position(symbol, entry_price, signal)
enter_position(st, config, symbol, entry_price, t) ==
    [st EXCEPT !.active_positions =
         DictSet(st.active_positions, symbol, NewPosition(config, symbol, entry_price, t))]

\* A trailing stop that follows every candle, whether or not it sets a new
\* extreme: C38 is tested against it.
TrailedPosition_follows_candle(config, position, candle) ==
    IF position.direction = "LONG"
    THEN [position EXCEPT
             !.highest_price = Max2(@, candle.high),
             !.stop_loss = IF config.trailing_stop
                           THEN PctDown(candle.high, config.stop_loss) ELSE @]
    ELSE [position EXCEPT
             !.lowest_price = Min2(@, candle.low),
             !.stop_loss = IF config.trailing_stop
                           THEN PctUp(candle.low, config.stop_loss) ELSE @]

\* The position after check_exit has updated its extremes and trailing stop.
TrailedPosition(config, position, candle) ==
    IF position.direction = "LONG"
    THEN IF candle.high > position.highest_price
         THEN LET new_stop == PctDown(candle.high, config.stop_loss)
              IN  [position EXCEPT
                      !.highest_price = candle.high,
                      !.stop_loss = IF config.trailing_stop /\ new_stop > position.stop_loss
                                    THEN new_stop ELSE position.stop_loss]
         ELSE position
    ELSE IF candle.low < position.lowest_price
         THEN LET new_stop == PctUp(candle.low, config.stop_loss)
              IN  [position EXCEPT
                      !.lowest_price = candle.low,
                      !.stop_loss = IF config.trailing_stop /\ new_stop < position.stop_loss
                                    THEN new_stop ELSE position.stop_loss]
         ELSE position

NoExit == [reason |-> "None", exit_price |-> 0]

\* An exit at the candle's close instead of the level: C11 is tested against it.
ExitInfo_at_close(position, candle) ==
    IF position.direction = "LONG"
    THEN IF candle.high >= position.take_profit
         THEN [reason |-> "TP", exit_price |-> candle.close]
         ELSE IF candle.low <= position.stop_loss
         THEN [reason |-> "SL", exit_price |-> candle.close]
         ELSE NoExit
    ELSE IF candle.low <= position.take_profit
         THEN [reason |-> "TP", exit_price |-> candle.close]
         ELSE IF candle.high >= position.stop_loss
         THEN [reason |-> "SL", exit_price |-> candle.close]
         ELSE NoExit

\* What TradingStrategy.check_exit returns for the (already trailed) position.
ExitInfo(position, candle) ==
    IF position.direction = "LONG"
    THEN IF candle.high >= position.take_profit
         THEN [reason |-> "TP", exit_price |-> position.take_profit]
         ELSE IF candle.low <= position.stop_loss
         THEN [reason |-> "SL", exit_price |-> position.stop_loss]
         ELSE NoExit
    ELSE IF candle.low <= position.take_profit
         THEN [reason |-> "TP", exit_price |-> position.take_profit]
         ELSE IF candle.high >= position.stop_loss
         THEN [reason |-> "SL", exit_price |-> position.stop_loss]
         ELSE NoExit

\* The LONG formula applied to both directions: C10 is tested against it.
PnlUsdt_long_only(direction, entry_price, exit_price, quantity) ==
    (exit_price - entry_price) * quantity

\* pnl_usdt of TradingStrategy.close_position, in 1/1000000 USDT
PnlUsdt(direction, entry_price, exit_price, quantity) ==
    IF direction = "LONG" THEN (exit_price - entry_price) * quantity
    ELSE (entry_price - exit_price) * quantity

\* pnl_percent, in hundredths
PnlPercent(direction, entry_price, exit_price) ==
    IF direction = "LONG" THEN ((exit_price - entry_price) * 10000) \div entry_price
    ELSE ((entry_price - exit_price) * 10000) \div entry_price

\* A close that leaves peak_balance as it is: C37 is tested against it.
close_position_peak_untracked(st, symbol, exit_price, reason, t) ==
    IF symbol \notin DOMAIN st.active_positions THEN st
    ELSE LET position == st.active_positions[symbol]
             pnl_usdt == PnlUsdt(position.direction, position.entry_price,
                                 exit_price, position.quantity)
             balance  == st.current_balance + pnl_usdt
             trade_record ==
                 [symbol      |-> symbol,
                  direction   |-> position.direction,
                  entry_price |-> position.entry_price,
                  exit_price  |-> exit_price,
                  entry_time  |-> position.entry_time,
                  exit_time   |-> t,
                  pnl_usdt    |-> pnl_usdt,
                  pnl_percent |-> PnlPercent(position.direction, position.entry_price,
                                             exit_price),
                  reason      |-> reason]
         IN  [st EXCEPT
                 !.current_balance = balance,
                 !.peak_balance    = @,
                 !.total_trades    = @ + 1,
                 !.total_pnl       = @ + pnl_usdt,
                 !.winning_trades  = IF pnl_usdt > 0 THEN @ + 1 ELSE @,
                 !.losing_trades   = IF pnl_usdt > 0 THEN @ ELSE @ + 1,
                 !.trade_history   = Append(@, trade_record),
                 !.pnl_history     = Append(@, pnl_usdt),
                 !.active_positions = DictDel(@, symbol)]

\* TradingStrategy.close_position(symbol, exit_price, reason)
close_position(st, symbol, exit_price, reason, t) ==
    IF symbol \notin DOMAIN st.active_positions THEN st
    ELSE LET position == st.active_positions[symbol]
             pnl_usdt == PnlUsdt(position.direction, position.entry_price,
                                 exit_price, position.quantity)
             balance  == st.current_balance + pnl_usdt
             trade_record ==
                 [symbol      |-> symbol,
                  direction   |-> position.direction,
                  entry_price |-> position.entry_price,
                  exit_price  |-> exit_price,
                  entry_time  |-> position.entry_time,
                  exit_time   |-> t,
                  pnl_usdt    |-> pnl_usdt,
                  pnl_percent |-> PnlPercent(position.direction, position.entry_price,
                                             exit_price),
                  reason      |-> reason]
         IN  [st EXCEPT
                 !.current_balance = balance,
                 !.peak_balance    = IF balance > @ THEN balance ELSE @,
                 !.total_trades    = @ + 1,
                 !.total_pnl       = @ + pnl_usdt,
                 !.winning_trades  = IF pnl_usdt > 0 THEN @ + 1 ELSE @,
                 !.losing_trades   = IF pnl_usdt > 0 THEN @ ELSE @ + 1,
                 !.trade_history   = Append(@, trade_record),
                 !.pnl_history     = Append(@, pnl_usdt),
                 !.active_positions = DictDel(@, symbol)]

---------------------------------------------------------------------------
(* StrategyManager *)

BufferMaxLen == 100

\* The buffer of (symbol, interval) after StrategyManager.on_candle_update.
ManagerBuffer(history, candle) ==
    IF Len(history) = 0 \/ candle.timestamp > history[Len(history)].timestamp
    THEN LET grown == Append(history, candle)
         IN  IF Len(grown) > BufferMaxLen THEN Tail(grown) ELSE grown
    ELSE IF candle.timestamp = history[Len(history)].timestamp
    THEN ReplaceLast(history, candle)
    ELSE history

\* A manager that evaluates exits on every tick: C5 is tested against it.
ManagerChecksExits_always(history, candle) == TRUE

\* Whether StrategyManager.on_candle_update calls check_all_exits for the tick.
ManagerChecksExits(history, candle) ==
    Len(history) = 0 \/ candle.timestamp >= history[Len(history)].timestamp

\* An iteration that tests the candle against whatever position the strategy
\* holds, of any symbol: C28 is tested against it.
CheckStrategyExit_any_symbol(id, st, symbol, candle, t) ==
    IF DOMAIN st.active_positions # {}
    THEN LET held      == CHOOSE s \in DOMAIN st.active_positions : TRUE
             position  == TrailedPosition(Config(id), st.active_positions[held], candle)
             exit_info == ExitInfo(position, candle)
             trailed   == [st EXCEPT !.active_positions[held] = position]
         IN  IF exit_info # NoExit
             THEN close_position(trailed, held, exit_info.exit_price,
                                 exit_info.reason, t)
             ELSE trailed
    ELSE st

\* One iteration of the loop of check_all_exits on strategy id.
CheckStrategyExit(id, st, symbol, candle, t) ==
    IF symbol \in DOMAIN st.active_positions
    THEN LET position  == TrailedPosition(Config(id), st.active_positions[symbol], candle)
             exit_info == ExitInfo(position, candle)
             trailed   == [st EXCEPT !.active_positions[symbol] = position]
         IN  IF exit_info # NoExit
             THEN close_position(trailed, symbol, exit_info.exit_price,
                                 exit_info.reason, t)
             ELSE trailed
    ELSE st

\* A scan that stops after the first strategy: C9 is tested against it.
check_all_exits_first(pop, symbol, candle, t) ==
    [id \in DOMAIN pop |-> IF id = 1 THEN CheckStrategyExit(id, pop[id], symbol, candle, t)
                           ELSE pop[id]]

\* StrategyManager.check_all_exits(symbol, interval, candle)
check_all_exits(pop, symbol, candle, t) ==
    [id \in DOMAIN pop |-> CheckStrategyExit(id, pop[id], symbol, candle, t)]

\* StrategyManager.on_candle_update(symbol, interval, candle_data)
ManagerOnCandleUpdate(symbol, interval, candle) ==
    LET history == candle_buffer[symbol][interval]
    IN  /\ candle_buffer' = [candle_buffer EXCEPT ![symbol][interval] =
                                 ManagerBuffer(history, candle)]
        /\ strategies' = IF ManagerChecksExits(history, candle)
                         THEN check_all_exits(strategies, symbol, candle, now)
                         ELSE strategies

\* An entry loop without the check for an existing position: C1 is tested
\* against it.
EnterStrategy_unguarded(id, st, signal, t) ==
    IF should_enter(Config(id), signal)
    THEN enter_position(st, Config(id), signal.symbol, signal.price, t)
    ELSE st

\* One iteration of the entry loop of on_pump_signal on strategy id.
EnterStrategy(id, st, signal, t) ==
    IF should_enter(Config(id), signal) /\ signal.symbol \notin DOMAIN st.active_positions
    THEN enter_position(st, Config(id), signal.symbol, signal.price, t)
    ELSE st

\* The entry loop of on_pump_signal over the strategies ids, in the order of
\* the list self.strategies (the order of their ids).  The loop stands inside
\* the one try block of the handler: the first strategy that raises ends it.
RECURSIVE EntryLoop(_, _, _, _)
EntryLoop(pop, ids, signal, t) ==
    IF ids = {} THEN pop
    ELSE LET id == CHOOSE x \in ids : \A y \in ids : x <= y
         IN  IF should_enter_raises(Config(id), signal)
             THEN pop
             ELSE EntryLoop([pop EXCEPT ![id] = EnterStrategy(id, pop[id], signal, t)],
                            ids \ {id}, signal, t)

\* StrategyManager.on_pump_signal(signal)
on_pump_signal(pop, signal, t) == EntryLoop(pop, DOMAIN pop, signal, t)

\* signal.copy() with signal['timeframe'] = timeframe
WithTimeframe(signal, timeframe) ==
    [k \in DOMAIN signal \cup {"timeframe"} |->
        IF k = "timeframe" THEN timeframe ELSE signal[k]]

\* What MexcPumpBot.on_pump_signal_detected does to the strategy population.
DispatchToStrategies(pop, signal, t) ==
    LET after_1m == on_pump_signal(pop, WithTimeframe(signal, "1m"), t)
    IN  IF Get(signal, "price_change_5m", 0) > 0
        THEN on_pump_signal(after_1m, WithTimeframe(signal, "5m"), t)
        ELSE after_1m

---------------------------------------------------------------------------
(* Final statistics and rankings *)

\* The pnl_usdt of the trades of a history that satisfy a comparison with 0.
RECURSIVE PnlsAbove(_)
PnlsAbove(history) ==
    IF history = <<>> THEN <<>>
    ELSE LET rest == PnlsAbove(Tail(history))
         IN  IF history[1].pnl_usdt > 0 THEN <<history[1].pnl_usdt>> \o rest ELSE rest
RECURSIVE PnlsBelow(_)
PnlsBelow(history) ==
    IF history = <<>> THEN <<>>
    ELSE LET rest == PnlsBelow(Tail(history))
         IN  IF history[1].pnl_usdt < 0 THEN <<history[1].pnl_usdt>> \o rest ELSE rest

\* sum(xs) / len(xs) if xs else 0
Average(xs) == IF xs = <<>> THEN 0 ELSE SumSeq(xs) \div Len(xs)

\* A profit factor that reports the gross profit when nothing was lost: C22
\* is tested against it.
ProfitFactor_gross(total_wins, total_losses) ==
    IF total_losses > 0 THEN (total_wins * 100) \div total_losses ELSE total_wins

\* total_wins / total_losses if total_losses > 0 else 0, in hundredths
ProfitFactor(total_wins, total_losses) ==
    IF total_losses > 0 THEN (total_wins * 100) \div total_losses ELSE 0

\* TradingStrategy.calculate_final_stats().  The Sharpe ratio, a quotient
\* guarded by returns.std() != 0, is left out: no claim reads it.
calculate_final_stats(st) ==
    IF st.total_trades = 0 THEN st
    ELSE LET wins   == PnlsAbove(st.trade_history)
             losses == PnlsBelow(st.trade_history)
             total_wins   == IF wins = <<>> THEN 0 ELSE SumSeq(wins)
             total_losses == IF losses = <<>> THEN 0 ELSE Abs(SumSeq(losses))
         IN  [st EXCEPT
                 !.win_rate      = (st.winning_trades * 10000) \div st.total_trades,
                 !.avg_win       = Average(wins),
                 !.avg_loss      = Average(losses),
                 !.profit_factor = ProfitFactor(total_wins, total_losses),
                 !.max_drawdown  = ((st.peak_balance - st.current_balance) * 100)
                                       \div (st.peak_balance \div 100)]

\* self.strategies, the list in the order generate_strategies built it, as ids
RECURSIVE StrategyList(_)
StrategyList(ids) ==
    IF ids = {} THEN <<>>
    ELSE LET first == CHOOSE id \in ids : \A other \in ids : id <= other
         IN  <<first>> \o StrategyList(ids \ {first})

\* [s for s in list if keep]
RECURSIVE Filter(_, _)
Filter(list, keep) ==
    IF list = <<>> THEN <<>>
    ELSE IF list[1] \in keep THEN <<list[1]>> \o Filter(Tail(list), keep)
    ELSE Filter(Tail(list), keep)

RemoveAt(list, i) == SubSeq(list, 1, i - 1) \o SubSeq(list, i + 1, Len(list))

\* A sort that forgets reverse=True: C21 is tested against it.
RECURSIVE SortedByPnl_ascending(_, _)
SortedByPnl_ascending(pop, list) ==
    IF list = <<>> THEN <<>>
    ELSE LET i == CHOOSE i \in DOMAIN list :
                     /\ \A j \in DOMAIN list :
                           pop[list[i]].total_pnl <= pop[list[j]].total_pnl
                     /\ \A j \in 1..(i - 1) :
                           pop[list[j]].total_pnl > pop[list[i]].total_pnl
         IN  <<list[i]>> \o SortedByPnl_ascending(pop, RemoveAt(list, i))

\* sorted(list, key=total_pnl, reverse=True): the sort is stable, strategies
\* of equal total_pnl keep the order of the list.
RECURSIVE SortedByPnl(_, _)
SortedByPnl(pop, list) ==
    IF list = <<>> THEN <<>>
    ELSE LET i == CHOOSE i \in DOMAIN list :
                     /\ \A j \in DOMAIN list :
                           pop[list[i]].total_pnl >= pop[list[j]].total_pnl
                     /\ \A j \in 1..(i - 1) :
                           pop[list[j]].total_pnl < pop[list[i]].total_pnl
         IN  <<list[i]>> \o SortedByPnl(pop, RemoveAt(list, i))

TopLen == 10

\* StrategyManager.__init__; best_long and best_short are no attributes of
\* the manager before the first ranking and are read through hasattr.
NoRankings ==
    [top_strategies |-> <<>>, best_strategy |-> None,
     best_long |-> None, best_short |-> None]

FirstOrNone(list) == IF list = <<>> THEN None ELSE list[1]

\* The rankings StrategyManager.calculate_rankings() leaves, the statistics
\* of pop being final.
Ranked(pop, before) ==
    LET strategies_with_trades ==
            Filter(StrategyList(DOMAIN pop), {id \in DOMAIN pop : pop[id].total_trades > 0})
        long_strategies ==
            Filter(strategies_with_trades,
                   {id \in DOMAIN pop : Config(id).direction = "LONG"})
        short_strategies ==
            Filter(strategies_with_trades,
                   {id \in DOMAIN pop : Config(id).direction = "SHORT"})
        all_sorted == SortedByPnl(pop, strategies_with_trades)
    IN  IF strategies_with_trades = <<>> THEN before
        ELSE [top_strategies |-> SubSeq(all_sorted, 1, IF Len(all_sorted) < TopLen
                                                       THEN Len(all_sorted) ELSE TopLen),
              best_strategy  |-> FirstOrNone(all_sorted),
              best_long      |-> FirstOrNone(SortedByPnl(pop, long_strategies)),
              best_short     |-> FirstOrNone(SortedByPnl(pop, short_strategies))]

\* StrategyManager.calculate_rankings()
calculate_rankings ==
    /\ strategies' = [id \in DOMAIN strategies |-> calculate_final_stats(strategies[id])]
    /\ rankings' = Ranked(strategies', rankings)

---------------------------------------------------------------------------
(* The symbol index of the dispatcher.  The repository's StrategyManager    *)
(* keeps no such index (check_all_exits scans the population); these three  *)
(* definitions follow the description of symbolToStrategies instead.        *)

\* Strategies that entered a position on the symbol register themselves.
IndexRegister(index, symbol, before, after) ==
    [index EXCEPT ![symbol] = @ \cup
        {id \in DOMAIN after : /\ symbol \in DOMAIN after[id].active_positions
                               /\ symbol \notin DOMAIN before[id].active_positions}]

\* The indexed strategies, still holding the symbol, that the candle closes.
ClosedThroughIndex(index, pop, symbol, candle) ==
    {id \in index[symbol] :
        /\ symbol \in DOMAIN pop[id].active_positions
        /\ ExitInfo(TrailedPosition(Config(id), pop[id].active_positions[symbol],
                                    candle), candle) # NoExit}

\* A strategy whose position was closed is removed from the index.
IndexRemove(index, symbol, closed) == [index EXCEPT ![symbol] = @ \ closed]

---------------------------------------------------------------------------
(* TradingBot (SIMULATED mode) and the trades table *)

DefaultReduce == 5
MaxCandlesWaited == 2

BotIds == {1, 2}

\* BotConfig rows: bot 1 trades LONG, bot 2 trades SHORT.
BotConfig(b) ==
    [direction |-> IF b = 1 THEN "LONG" ELSE "SHORT",
     take_profit |-> 5, stop_loss |-> 2, position_size_usdt |-> 50,
     price_increase_threshold |-> 200, volume_multiplier |-> 300,
     rsi_threshold |-> 7000, min_confidence |-> 70,
     min_trend_strength |-> 0, require_breakout |-> FALSE,
     min_volume_consistency |-> 0, timeframe |-> "1m",
     reduce |-> IF b = 1 THEN 0 ELSE 5]

\* self.reduce = getattr(bot_config, 'reduce', 5) or 5, in percent per minute
reduce(cfg) == IF cfg.reduce = 0 THEN DefaultReduce ELSE cfg.reduce

\* TradingBot.__init__
NewBot ==
    [active_trades     |-> [s \in {} |-> 0],
     pending_orders    |-> [s \in {} |-> 0],
     trade_reduce_info |-> [s \in {} |-> 0],
     total_trades      |-> 0,
     winning_trades    |-> 0,
     losing_trades     |-> 0,
     total_pnl         |-> 0]

\* TradingBot.should_enter(signal)
bot_should_enter(cfg, signal) ==
    LET price_change == IF cfg.timeframe = "1m"
                        THEN Get(signal, "price_change_1m", 0)
                        ELSE Get(signal, "price_change_5m", 0)
        rsi == Get(signal, "rsi", None)
    IN  /\ Get(signal, "timeframe", "1m") = cfg.timeframe
        /\ ~(price_change < cfg.price_increase_threshold)
        /\ ~(Get(signal, "volume_ratio", 0) < cfg.volume_multiplier)
        /\ ~(rsi # None /\ rsi < cfg.rsi_threshold)
        /\ ~(Get(signal, "confidence", 0) < cfg.min_confidence)
        /\ ~(cfg.min_trend_strength > 0
             /\ Get(signal, "trend_strength", 0) < cfg.min_trend_strength)
        /\ ~(cfg.require_breakout /\ ~Get(signal, "is_breakout", FALSE))
        /\ ~(cfg.min_volume_consistency > 0
             /\ Get(signal, "volume_consistency", 0) < cfg.min_volume_consistency)

\* take_profit and stop_loss of a trade of the bot entered or filled at price
BotTakeProfit(cfg, price) ==
    IF cfg.direction = "LONG" THEN PctUp(price, cfg.take_profit)
    ELSE PctDown(price, cfg.take_profit)
BotStopLoss(cfg, price) ==
    IF cfg.direction = "LONG" THEN PctDown(price, cfg.stop_loss)
    ELSE PctUp(price, cfg.stop_loss)

\* The Trade row TradingBot.enter_position adds.
NewTrade(b, cfg, symbol, entry_price, t) ==
    [bot_config_id |-> b,
     symbol        |-> symbol,
     direction     |-> cfg.direction,
     entry_price   |-> entry_price,
     entry_time    |-> t,
     quantity      |-> Quantity(cfg.position_size_usdt, entry_price),
     take_profit   |-> BotTakeProfit(cfg, entry_price),
     stop_loss     |-> BotStopLoss(cfg, entry_price),
     highest_price |-> entry_price,
     lowest_price  |-> entry_price,
     status        |-> "OPEN",
     exit_price    |-> None,
     pnl_usdt      |-> 0,
     pnl_percent   |-> 0,
     exit_reason   |-> "None"]

\* TradingBot.place_simulated_order(trade_id, symbol, price, quantity)
place_simulated_order(bot, trade_id, symbol, price, quantity) ==
    [bot EXCEPT !.pending_orders =
        DictSet(@, symbol, [trade_id |-> trade_id, entry_price |-> price,
                            quantity |-> quantity, candles_waited |-> 0])]

\* TradingBot.enter_position(signal) of bot b on the world w = [bots, trades]
bot_enter_position(w, b, signal, t) ==
    LET cfg      == BotConfig(b)
        symbol   == signal.symbol
        trade    == NewTrade(b, cfg, symbol, signal.price, t)
        trade_id == Len(w.trades) + 1
        tracked  == [w.bots[b] EXCEPT
                        !.active_trades = DictSet(@, symbol, trade_id),
                        !.trade_reduce_info =
                            DictSet(@, symbol, [initial_tp |-> trade.take_profit,
                                                last_reduce_minute |-> 0,
                                                entry_time |-> t])]
    IN  [bots   |-> [w.bots EXCEPT ![b] =
                        place_simulated_order(tracked, trade_id, symbol,
                                              signal.price, trade.quantity)],
         trades |-> Append(w.trades, trade)]

\* TradingBot.on_signal(signal)
bot_on_signal(w, b, signal, t) ==
    IF ~bot_should_enter(BotConfig(b), signal) THEN w
    ELSE IF signal.symbol \in DOMAIN w.bots[b].active_trades THEN w
    ELSE IF signal.symbol \in DOMAIN w.bots[b].pending_orders THEN w
    ELSE bot_enter_position(w, b, signal, t)

\* TradingBot.cancel_trade(trade_id, reason)
cancel_trade(w, b, trade_id, reason) ==
    LET symbol == w.trades[trade_id].symbol
    IN  [bots   |-> [w.bots EXCEPT
                        ![b].active_trades = DictDel(@, symbol),
                        ![b].trade_reduce_info = DictDel(@, symbol)],
         trades |-> [w.trades EXCEPT ![trade_id].status = "CANCELLED",
                                     ![trade_id].exit_reason = reason]]

\* TradingBot.check_pending_order(symbol, candle)
check_pending_order(w, b, symbol, candle) ==
    LET cfg         == BotConfig(b)
        pending     == w.bots[b].pending_orders[symbol]
        trade_id    == pending.trade_id
        entry_price == pending.entry_price
        waited      == pending.candles_waited + 1
        filled      == IF cfg.direction = "LONG" THEN candle.low <= entry_price
                       ELSE candle.high >= entry_price
        fill_price  == IF cfg.direction = "LONG" THEN Min2(entry_price, candle.open)
                       ELSE Max2(entry_price, candle.open)
    IN  IF filled
        THEN [bots   |-> [w.bots EXCEPT
                             ![b].pending_orders = DictDel(@, symbol),
                             ![b].trade_reduce_info =
                                 IF symbol \in DOMAIN @
                                 THEN [@ EXCEPT ![symbol].initial_tp =
                                                    BotTakeProfit(cfg, fill_price)]
                                 ELSE @],
              trades |-> [w.trades EXCEPT
                             ![trade_id].entry_price = fill_price,
                             ![trade_id].take_profit = BotTakeProfit(cfg, fill_price),
                             ![trade_id].stop_loss = BotStopLoss(cfg, fill_price)]]
        ELSE IF waited >= MaxCandlesWaited
        THEN LET c == cancel_trade(w, b, trade_id, "Order not filled after 2 candles")
             IN  [c EXCEPT !.bots[b].pending_orders = DictDel(@, symbol)]
        ELSE [w EXCEPT !.bots[b].pending_orders[symbol].candles_waited = waited]

\* int(hold_time.total_seconds() / 60)
MinutesHeld(reduce_info, t) == (t - reduce_info.entry_time) \div 60

\* A decay that takes one minute's reduction however long the trade is held:
\* C24 is tested against it.
calculate_reduced_tp_one_minute(cfg, trade, reduce_info, t) ==
    LET minutes_held == MinutesHeld(reduce_info, t)
        initial_tp   == reduce_info.initial_tp
        total_distance ==
            IF cfg.direction = "LONG"
            THEN (initial_tp - trade.entry_price) + (trade.entry_price - trade.stop_loss)
            ELSE (trade.entry_price - initial_tp) + (trade.stop_loss - trade.entry_price)
        total_reduction == (total_distance * reduce(cfg)) \div 100
    IN  IF minutes_held <= reduce_info.last_reduce_minute THEN trade.take_profit
        ELSE IF cfg.direction = "LONG"
             THEN Max2(initial_tp - total_reduction, trade.stop_loss)
             ELSE Min2(initial_tp + total_reduction, trade.stop_loss)

\* TradingBot._calculate_reduced_tp(trade, symbol): the take-profit it returns
calculate_reduced_tp(cfg, trade, reduce_info, t) ==
    LET minutes_held == MinutesHeld(reduce_info, t)
        initial_tp   == reduce_info.initial_tp
        total_distance ==
            IF cfg.direction = "LONG"
            THEN (initial_tp - trade.entry_price) + (trade.entry_price - trade.stop_loss)
            ELSE (trade.entry_price - initial_tp) + (trade.stop_loss - trade.entry_price)
        total_reduction == (total_distance * reduce(cfg) * minutes_held) \div 100
    IN  IF minutes_held <= reduce_info.last_reduce_minute THEN trade.take_profit
        ELSE IF cfg.direction = "LONG"
             THEN Max2(initial_tp - total_reduction, trade.stop_loss)
             ELSE Min2(initial_tp + total_reduction, trade.stop_loss)

\* pnl_usdt and pnl_percent of TradingBot.close_trade
TradePnlUsdt(trade, exit_price) ==
    IF trade.direction = "LONG" THEN (exit_price - trade.entry_price) * trade.quantity
    ELSE (trade.entry_price - exit_price) * trade.quantity
TradePnlPercent(trade, exit_price) ==
    IF trade.direction = "LONG"
    THEN ((exit_price - trade.entry_price) * 10000) \div trade.entry_price
    ELSE ((trade.entry_price - exit_price) * 10000) \div trade.entry_price

\* TradingBot.close_trade(trade, exit_price, reason, session); trade is the
\* row as check_exit has updated it
close_trade(w, b, trade_id, trade, exit_price, reason) ==
    LET pnl_usdt == TradePnlUsdt(trade, exit_price)
    IN  [bots   |-> [w.bots EXCEPT
                        ![b].total_trades   = @ + 1,
                        ![b].winning_trades = IF pnl_usdt > 0 THEN @ + 1 ELSE @,
                        ![b].losing_trades  = IF pnl_usdt > 0 THEN @ ELSE @ + 1,
                        ![b].total_pnl      = @ + pnl_usdt,
                        ![b].active_trades  = DictDel(@, trade.symbol)],
         trades |-> [w.trades EXCEPT ![trade_id] =
                        [trade EXCEPT !.exit_price  = exit_price,
                                      !.pnl_usdt    = pnl_usdt,
                                      !.pnl_percent = TradePnlPercent(trade, exit_price),
                                      !.exit_reason = reason,
                                      !.status      = "CLOSED"]]]

\* A take-profit exit that is always labelled TP: C26 is tested against it.
TradeExit_unlabelled(cfg, trade, candle, suffix) ==
    IF cfg.direction = "LONG"
    THEN IF candle.high >= trade.take_profit
         THEN [reason |-> "TP", exit_price |-> trade.take_profit]
         ELSE IF candle.low <= trade.stop_loss
         THEN [reason |-> "SL", exit_price |-> trade.stop_loss]
         ELSE NoExit
    ELSE IF candle.low <= trade.take_profit
         THEN [reason |-> "TP", exit_price |-> trade.take_profit]
         ELSE IF candle.high >= trade.stop_loss
         THEN [reason |-> "SL", exit_price |-> trade.stop_loss]
         ELSE NoExit

\* The stop-loss tested before the take-profit: C12 is tested against it.
TradeExit_sl_first(cfg, trade, candle, suffix) ==
    IF cfg.direction = "LONG"
    THEN IF candle.low <= trade.stop_loss
         THEN [reason |-> "SL", exit_price |-> trade.stop_loss]
         ELSE IF candle.high >= trade.take_profit
         THEN [reason |-> "TP" \o suffix, exit_price |-> trade.take_profit]
         ELSE NoExit
    ELSE IF candle.high >= trade.stop_loss
         THEN [reason |-> "SL", exit_price |-> trade.stop_loss]
         ELSE IF candle.low <= trade.take_profit
         THEN [reason |-> "TP" \o suffix, exit_price |-> trade.take_profit]
         ELSE NoExit

\* The exit TradingBot.check_exit finds for the trade: reason and price.
TradeExit(cfg, trade, candle, suffix) ==
    IF cfg.direction = "LONG"
    THEN IF candle.high >= trade.take_profit
         THEN [reason |-> "TP" \o suffix, exit_price |-> trade.take_profit]
         ELSE IF candle.low <= trade.stop_loss
         THEN [reason |-> "SL", exit_price |-> trade.stop_loss]
         ELSE NoExit
    ELSE IF candle.low <= trade.take_profit
         THEN [reason |-> "TP" \o suffix, exit_price |-> trade.take_profit]
         ELSE IF candle.high >= trade.stop_loss
         THEN [reason |-> "SL", exit_price |-> trade.stop_loss]
         ELSE NoExit

\* TradingBot.check_exit(symbol, candle)
bot_check_exit(w, b, symbol, candle, t) ==
    IF symbol \notin DOMAIN w.bots[b].active_trades THEN w
    ELSE
    LET cfg      == BotConfig(b)
        trade_id == w.bots[b].active_trades[symbol]
        trade    == w.trades[trade_id]
        extremes == [trade EXCEPT
                        !.highest_price = IF candle.high > @ THEN candle.high ELSE @,
                        !.lowest_price  = IF candle.low < @ THEN candle.low ELSE @]
        reducing == reduce(cfg) > 0 /\ symbol \in DOMAIN w.bots[b].trade_reduce_info
        info     == w.bots[b].trade_reduce_info[symbol]
        new_tp   == IF reducing THEN calculate_reduced_tp(cfg, extremes, info, t)
                    ELSE extremes.take_profit
        reduced  == [extremes EXCEPT !.take_profit = new_tp]
        suffix   == IF new_tp # extremes.take_profit THEN "_REDUCED" ELSE ""
        noted    == IF reducing /\ MinutesHeld(info, t) > info.last_reduce_minute
                    THEN [w.bots EXCEPT ![b].trade_reduce_info[symbol].last_reduce_minute =
                                            MinutesHeld(info, t)]
                    ELSE w.bots
        exit     == TradeExit(cfg, reduced, candle, suffix)
    IN  IF trade.status # "OPEN" THEN w
        ELSE IF exit # NoExit /\ exit.exit_price # 0
        THEN LET c == close_trade([bots |-> noted, trades |-> w.trades], b, trade_id,
                                  reduced, exit.exit_price, exit.reason)
             IN  [c EXCEPT !.bots[b].trade_reduce_info = DictDel(@, symbol)]
        ELSE [bots |-> noted, trades |-> [w.trades EXCEPT ![trade_id] = reduced]]

\* TradingBot.on_candle_update(symbol, interval, candle_data)
bot_on_candle_update(w, b, symbol, candle, t) ==
    IF symbol \notin DOMAIN w.bots[b].active_trades
       /\ symbol \notin DOMAIN w.bots[b].pending_orders
    THEN w
    ELSE LET checked == IF symbol \in DOMAIN w.bots[b].pending_orders
                        THEN check_pending_order(w, b, symbol, candle)
                        ELSE w
         IN  bot_check_exit(checked, b, symbol, candle, t)

\* BotManager.on_signal and BotManager.on_candle_update: every bot in turn
RECURSIVE BroadcastSignal(_, _, _, _)
BroadcastSignal(w, ids, signal, t) ==
    IF ids = {} THEN w
    ELSE LET b == CHOOSE x \in ids : \A y \in ids : x <= y
         IN  BroadcastSignal(bot_on_signal(w, b, signal, t), ids \ {b}, signal, t)

RECURSIVE BroadcastCandle(_, _, _, _, _)
BroadcastCandle(w, ids, symbol, candle, t) ==
    IF ids = {} THEN w
    ELSE LET b == CHOOSE x \in ids : \A y \in ids : x <= y
         IN  BroadcastCandle(bot_on_candle_update(w, b, symbol, candle, t),
                             ids \ {b}, symbol, candle, t)

---------------------------------------------------------------------------
(* The environment: what no handler has received yet *)

NoTick == [symbol |-> "", interval |-> "", candle |-> Candle(0, 0, 0, 0, 0, 0)]
NoSignal == [signal |-> [symbol |-> ""], at |-> 0]
NoCall == [price_1m |-> 0, price_5m |-> 0, volume_ratio |-> 0, rsi |-> None,
           momentum |-> 0, buy_pressure |-> 0, computed |-> FALSE, confidence |-> 0]

NoDecision == [config |-> <<>>, signal |-> <<>>, computed |-> FALSE,
               strategy |-> "", bot |-> ""]

\* _flush_messages sleeps 3 seconds between rounds, _send_group_message 2
\* seconds after every attempt.
FlushSleep == 3
SendSleep == 2

\* TelegramMessageQueue.__init__ and start: an empty queue, an empty buffer
\* for the chat, no send task, and _flush_messages in its first sleep (times
\* in seconds since start).
NoTele == [accepted |-> 0, queue |-> <<>>, message_buffer |-> <<>>, tasks |-> <<>>,
           clock |-> 0, next_flush |-> FlushSleep, transmitted |-> <<>>, removed |-> <<>>]

NoHistory == [s \in Symbols |-> [iv \in Intervals |-> <<>>]]
NoBots == [b \in {} |-> NewBot]

\* The clock advances within a minute or by most of the cooldown.
Tick ==
    /\ nticks < MaxTicks
    /\ \E d \in TimeSteps : now' = now + d
    /\ nticks' = nticks + 1
    /\ UNCHANGED <<sock, rankings, decision, callback_tasks, tele, detVars, mgrVars, botVars, conf, tick, delivered, nfeeds, nsignals>>

\* MexcPumpBot.on_pump_signal_detected(signal): to the StrategyManager, then
\* to the BotManager if there is one.
OnPumpSignalDetected(signal) ==
    LET entered == DispatchToStrategies(strategies, signal, now)
        w == BroadcastSignal([bots |-> bots, trades |-> trades], DOMAIN bots,
                             signal, now)
    IN  /\ strategies' = entered
        /\ symbol_to_strategies' =
               IndexRegister(symbol_to_strategies, signal.symbol, strategies, entered)
        /\ bots' = w.bots
        /\ trades' = w.trades
        /\ delivered' = [signal |-> signal, at |-> now]
        /\ nsignals' = nsignals + 1

\* socket.notify to StrategyManager.on_candle_update and, if there is a
\* BotManager, to BotManager.on_candle_update.
OnCandle(symbol, interval, candle) ==
    LET w == BroadcastCandle([bots |-> bots, trades |-> trades], DOMAIN bots,
                             symbol, candle, now)
    IN  /\ ManagerOnCandleUpdate(symbol, interval, candle)
        /\ symbol_to_strategies' =
               IF ManagerChecksExits(candle_buffer[symbol][interval], candle)
               THEN IndexRemove(symbol_to_strategies, symbol,
                        ClosedThroughIndex(symbol_to_strategies, strategies,
                                           symbol, candle))
               ELSE symbol_to_strategies
        /\ bots' = w.bots
        /\ trades' = w.trades
        /\ tick' = [symbol |-> symbol, interval |-> interval, candle |-> candle]
        /\ nfeeds' = nfeeds + 1

---------------------------------------------------------------------------
(* The market socket.  notify creates one task per registered callback on   *)
(* the asyncio event loop, which runs its ready tasks oldest first.  The    *)
(* callbacks of the detector, the strategy manager and the simulated bots   *)
(* run to their end without waiting for anything outside the loop (their    *)
(* awaits are puts on an unbounded queue and handlers of the same kind), so *)
(* the ten permits of MexcSocket's semaphore are never all taken and a task *)
(* is pending exactly until it has run.  The listen loop is a task of the   *)
(* same loop: the messages the connection has buffered are handed to notify *)
(* one after the other, and when listen waits for the next message every    *)
(* task created before runs ahead of its resumption.                        *)

max_pending_tasks == 100

\* The callbacks the bot registers, in registration order; the last one only
\* when a BotManager is configured.
Callbacks == <<"pump_detector", "strategy_manager", "bot_manager">>
CallbackCounts == {2, 3}

SockKinds == {"mexc", "gate"}
SockSymbols == {"A_USDT", "B_USDT"}

\* GateSocket.notify: symbol.replace("_", "")
NormalizedSymbol(symbol) ==
    CASE symbol = "A_USDT" -> "AUSDT"
      [] symbol = "B_USDT" -> "BUSDT"
      [] OTHER -> symbol

\* The task that awaits callback(symbol, interval, data) for tick number seq.
CallbackTask(callback, symbol, seq) ==
    [callback |-> callback, symbol |-> symbol, seq |-> seq]

\* The listen loop, to be resumed after its await asyncio.sleep(0).
ListenTask == [callback |-> "listen", symbol |-> "", seq |-> 0]

\* Tasks put in front of the ready tasks: C18 is tested against it.
CreateTasks_lifo(ready, callbacks, symbol, seq) ==
    [i \in 1..Len(callbacks) |-> CallbackTask(callbacks[i], symbol, seq)] \o ready

\* for callback in self.callbacks: asyncio.create_task(...)
CreateTasks(ready, callbacks, symbol, seq) ==
    ready \o [i \in 1..Len(callbacks) |-> CallbackTask(callbacks[i], symbol, seq)]

\* len(self._pending_tasks) once the done tasks are removed
PendingTasks(ready) ==
    Cardinality({i \in DOMAIN ready : ready[i].callback # "listen"})

\* MexcSocket.notify(symbol, interval, data) for tick number seq
MexcNotify(sk, symbol, seq) ==
    IF PendingTasks(sk.ready) >= max_pending_tasks
    THEN [sk EXCEPT !.dropped = @ + 1, !.op = "dropped"]
    ELSE [sk EXCEPT !.ready = CreateTasks(@, sk.callbacks, symbol, seq),
                    !.op = "created"]

\* GateSocket.notify(symbol, interval, candle_data) for tick number seq, up to
\* its await asyncio.sleep(0)
GateNotify(sk, symbol, seq) ==
    [sk EXCEPT !.ready = Append(CreateTasks(@, sk.callbacks,
                                            NormalizedSymbol(symbol), seq),
                                ListenTask),
               !.awaiting = TRUE,
               !.op = "created"]

\* The event loop runs the oldest ready task to its end.
RunTask(sk) ==
    LET task == Head(sk.ready)
    IN  IF task.callback = "listen"
        THEN [sk EXCEPT !.ready = Tail(@), !.awaiting = FALSE, !.op = "resumed"]
        ELSE [sk EXCEPT !.ready = Tail(@),
                        !.received[task.callback] = DictSet(@, task.symbol, task.seq),
                        !.op = "ran"]

\* The socket after __init__ and register_callback.
NewSock(kind, callbacks, pattern) ==
    [kind     |-> kind,
     callbacks |-> callbacks,
     pattern  |-> pattern,
     ready    |-> <<>>,
     awaiting |-> FALSE,
     produced |-> 0,
     dropped  |-> 0,
     received |-> [cb \in {callbacks[i] : i \in 1..Len(callbacks)} |->
                      [s \in {} |-> 0]],
     op       |-> "none"]
NoSock == NewSock("none", <<>>, 0)

---------------------------------------------------------------------------
(* The back-testing pipeline: socket -> PumpDetector and StrategyManager,   *)
(* PumpDetector -> on_pump_signal_detected -> StrategyManager.  No          *)
(* BotManager is configured.                                                *)

InitDet ==
    /\ \E h \in InitHistories1m :
          /\ candle_history = [s \in Symbols |-> [iv \in Intervals |->
                 IF s = "A" THEN IF iv = "Min1" THEN h ELSE History5m ELSE <<>>]]
          /\ now = h[Len(h)].timestamp + 60
    /\ candle_buffer = candle_history
    /\ recent_pumps = [s \in {} |-> 0]
    /\ emitted = <<>>
    /\ analysed = "none"
    /\ signal_tasks = <<>>
    /\ strategies = [id \in StrategyIds |-> NewStrategy]
    /\ symbol_to_strategies = [s \in Symbols |-> {}]
    /\ bots = NoBots
    /\ trades = <<>>
    /\ conf = NoCall
    /\ tick = NoTick
    /\ delivered = NoSignal
    /\ sock = NoSock
    /\ rankings = NoRankings
    /\ decision = NoDecision
    /\ callback_tasks = <<>>
    /\ tele = NoTele
    /\ nfeeds = 0
    /\ nticks = 0
    /\ nsignals = 0

\* socket.notify: the tick goes to PumpDetector.on_candle_update and to
\* StrategyManager.on_candle_update, in the order they were registered.  The
\* tasks of an earlier tick, the signal task it created included, have run.
Feed ==
    /\ nfeeds < MaxFeeds
    /\ signal_tasks = <<>>
    /\ \E inp \in FeedInputs :
          LET candle == TickCandle(candle_history[inp[1]][inp[2]], inp[3], inp[4])
          IN  /\ DetectorOnCandleUpdate(inp[1], inp[2], candle)
              /\ OnCandle(inp[1], inp[2], candle)
    /\ UNCHANGED <<sock, rankings, decision, callback_tasks, tele, now, conf, delivered, nticks, nsignals>>

\* The task running MexcPumpBot.on_pump_signal_detected(signal).
Dispatch ==
    /\ signal_tasks # <<>>
    /\ OnPumpSignalDetected(Head(signal_tasks))
    /\ signal_tasks' = Tail(signal_tasks)
    /\ UNCHANGED <<sock, rankings, decision, callback_tasks, tele, now, candle_history, recent_pumps, emitted, analysed,
                   candle_buffer, conf, tick, nfeeds, nticks>>

NextDet == Tick \/ Feed \/ Dispatch

SpecDet == InitDet /\ [][NextDet]_vars

\* The pipeline on buffers that are nearly full or full: 99 or 100 quiet
\* one-minute candles of A in the detector's buffer and in the manager's.
InitFull ==
    /\ \E n \in {HistoryMaxLen - 1, HistoryMaxLen} :
          /\ candle_history = [s \in Symbols |-> [iv \in Intervals |->
                 IF s = "A" THEN IF iv = "Min1" THEN QuietHistory(n) ELSE History5m
                 ELSE <<>>]]
          /\ now = 60 * n + 60
    /\ candle_buffer = candle_history
    /\ recent_pumps = [s \in {} |-> 0]
    /\ emitted = <<>>
    /\ analysed = "none"
    /\ signal_tasks = <<>>
    /\ strategies = [id \in StrategyIds |-> NewStrategy]
    /\ symbol_to_strategies = [s \in Symbols |-> {}]
    /\ bots = NoBots
    /\ trades = <<>>
    /\ conf = NoCall
    /\ tick = NoTick
    /\ delivered = NoSignal
    /\ sock = NoSock
    /\ rankings = NoRankings
    /\ decision = NoDecision
    /\ callback_tasks = <<>>
    /\ tele = NoTele
    /\ nfeeds = 0
    /\ nticks = 0
    /\ nsignals = 0

SpecFull == InitFull /\ [][NextDet]_vars

---------------------------------------------------------------------------
(* TelegramMessageQueue on its own: messages are numbered in the order       *)
(* send_message accepted them, all for one chat (message_buffer is kept per  *)
(* chat and a send task touches only its chat's list).  buffer_lock is held  *)
(* only over stretches without an await, so every locked stretch is one      *)
(* step.  Time is counted in seconds; a timer that is due fires before the   *)
(* clock moves on.                                                           *)

MaxMessages == 2
MaxClock == 9

nonTeleVars == <<sock, rankings, decision, callback_tasks, now, detVars, mgrVars,
                 botVars, conf, tick, delivered, nfeeds, nticks, nsignals>>

\* TelegramMessageQueue.send_message(text, chat_id)
SendMessage ==
    /\ tele.accepted < MaxMessages
    /\ tele' = [tele EXCEPT !.accepted = @ + 1,
                            !.queue = Append(@, tele.accepted + 1)]
    /\ UNCHANGED nonTeleVars

\* One round of _worker: the oldest queued message goes to the chat's buffer.
Worker ==
    /\ tele.queue # <<>>
    /\ tele' = [tele EXCEPT !.queue = Tail(@),
                            !.message_buffer = Append(@, Head(tele.queue))]
    /\ UNCHANGED nonTeleVars

\* One round of _flush_messages: a send task for the chat if its buffer
\* holds a message.
FlushMessages ==
    /\ tele.clock = tele.next_flush
    /\ tele' = [tele EXCEPT
                   !.next_flush = tele.clock + FlushSleep,
                   !.tasks = IF Len(tele.message_buffer) > 0
                             THEN Append(@, [at |-> "start", messages_to_send |-> <<>>,
                                             num_sent |-> 0, retry |-> FALSE, wake |-> 0])
                             ELSE @]
    /\ UNCHANGED nonTeleVars

\* send_telegram_message inside the retry loop: the post goes through
\* (retry False) or raises RequestException (retry True); the task then
\* sleeps.
Attempt(task, failed) ==
    [task EXCEPT !.at = "sleep", !.retry = failed, !.wake = tele.clock + SendSleep]

\* _send_group_message from its start to the first sleep.
SendGroupMessageStart ==
    /\ \E i \in DOMAIN tele.tasks :
          /\ tele.tasks[i].at = "start"
          /\ IF tele.message_buffer = <<>>
             THEN tele' = [tele EXCEPT !.tasks = RemoveAt(@, i)]
             ELSE \E failed \in BOOLEAN :
                    LET task == [tele.tasks[i] EXCEPT
                                    !.messages_to_send = tele.message_buffer,
                                    !.num_sent = Len(tele.message_buffer)]
                    IN  tele' = [tele EXCEPT
                                    !.tasks[i] = Attempt(task, failed),
                                    !.transmitted = IF failed THEN @
                                                    ELSE Append(@, task.messages_to_send)]
    /\ UNCHANGED nonTeleVars

\* _send_group_message wakes with retry set: the same batch is posted again.
SendGroupMessageRetry ==
    /\ \E i \in DOMAIN tele.tasks :
          /\ tele.tasks[i].at = "sleep"
          /\ tele.tasks[i].wake = tele.clock
          /\ tele.tasks[i].retry
          /\ \E failed \in BOOLEAN :
                tele' = [tele EXCEPT
                            !.tasks[i] = Attempt(tele.tasks[i], failed),
                            !.transmitted = IF failed THEN @
                                            ELSE Append(@, tele.tasks[i].messages_to_send)]
    /\ UNCHANGED nonTeleVars

\* _send_group_message wakes after the post went through:
\* message_buffer[chat_id] = message_buffer[chat_id][num_sent:].
SendGroupMessageRemove ==
    /\ \E i \in DOMAIN tele.tasks :
          /\ tele.tasks[i].at = "sleep"
          /\ tele.tasks[i].wake = tele.clock
          /\ ~tele.tasks[i].retry
          /\ LET n == Min2(tele.tasks[i].num_sent, Len(tele.message_buffer))
             IN  tele' = [tele EXCEPT
                             !.message_buffer = SubSeq(@, n + 1, Len(@)),
                             !.removed = Append(@, [messages |-> SubSeq(tele.message_buffer, 1, n),
                                                    batch |-> tele.tasks[i].messages_to_send]),
                             !.tasks = RemoveAt(@, i)]
    /\ UNCHANGED nonTeleVars

\* A second passes: no task is ready and no timer is due.
TeleClock ==
    /\ tele.clock < MaxClock
    /\ tele.clock # tele.next_flush
    /\ \A i \in DOMAIN tele.tasks :
          tele.tasks[i].at = "sleep" /\ tele.tasks[i].wake > tele.clock
    /\ tele' = [tele EXCEPT !.clock = @ + 1]
    /\ UNCHANGED nonTeleVars

NextTele ==
    \/ SendMessage \/ Worker \/ FlushMessages \/ SendGroupMessageStart
    \/ SendGroupMessageRetry \/ SendGroupMessageRemove \/ TeleClock

SpecTele == InitDet /\ [][NextTele]_vars

---------------------------------------------------------------------------
(* The pipeline with its tasks interleaved.  notify creates a task per      *)
(* callback and tick; the event loop starts them oldest first.  A task of   *)
(* PumpDetector.on_candle_update runs without giving way up to the await of *)
(* notify_pump in analyze_pump_realtime, the one await on its path that     *)
(* calls out of the detector; the model lets the task give way there, so    *)
(* that any other ready task may run before it goes on to create the task   *)
(* for the callback.                                                        *)

\* A detector that writes recent_pumps after the await of notify_pump: C35 is
\* tested against it.
AnalysisMarks_after_await(pumps, symbol, t, at) ==
    IF at = "notify_pump" THEN MarkPump(pumps, symbol, t) ELSE pumps

\* recent_pumps as the task leaves it on the stretch that began at `at`: the
\* write stands before the await.
AnalysisMarks(pumps, symbol, t, at) ==
    IF at = "start" THEN MarkPump(pumps, symbol, t) ELSE pumps

\* The ticks of A's one-minute stream: 6% up on four times the volume, of the
\* newest buffered candle or of the next one (a tick that follows such a
\* candle at its close is a quiet one).
InterInputs ==
    {<<"A", "Min1", [open |-> 100000, close |-> 106000, volume |-> 4000], off>> :
        off \in {0, 60}}

\* The task of callback(symbol, interval, candle), not yet started.
TickTask(callback, symbol, interval, candle) ==
    [callback |-> callback, symbol |-> symbol, interval |-> interval,
     candle |-> candle, at |-> "start", signal |-> [symbol |-> ""]]

\* The ticks notified whose StrategyManager task has not run yet.
TicksInFlight ==
    Cardinality({i \in DOMAIN callback_tasks :
                    callback_tasks[i].callback = "strategy_manager"})

\* The oldest task that has not started, 0 if there is none.
OldestReady ==
    IF \E i \in DOMAIN callback_tasks : callback_tasks[i].at = "start"
    THEN CHOOSE i \in DOMAIN callback_tasks :
             /\ callback_tasks[i].at = "start"
             /\ \A j \in 1..(i - 1) : callback_tasks[j].at # "start"
    ELSE 0

\* socket.notify: a task for PumpDetector.on_candle_update and one for
\* StrategyManager.on_candle_update, in the order they were registered.
NotifyTick ==
    /\ nfeeds + TicksInFlight < MaxFeeds
    /\ \E inp \in InterInputs :
          LET candle == TickCandle(candle_history[inp[1]][inp[2]], inp[3], inp[4])
          IN  callback_tasks' = callback_tasks
                  \o <<TickTask("pump_detector", inp[1], inp[2], candle),
                       TickTask("strategy_manager", inp[1], inp[2], candle)>>
    /\ UNCHANGED <<sock, rankings, decision, tele, now, detVars, mgrVars, botVars, conf, tick,
                   delivered, nfeeds, nticks, nsignals>>

\* PumpDetector.on_candle_update from its start to the await of notify_pump,
\* or to its end when the analysis emits nothing.
RunDetector ==
    /\ OldestReady # 0
    /\ callback_tasks[OldestReady].callback = "pump_detector"
    /\ LET task     == callback_tasks[OldestReady]
           history  == candle_history[task.symbol][task.interval]
           buffers  == [candle_history EXCEPT ![task.symbol][task.interval] =
                            DetectorBuffer(history, task.candle)]
           is_new   == Len(history) > 0
                          /\ task.candle.timestamp > history[Len(history)].timestamp
           result   == IF DetectorAnalyses(history, task.interval, task.candle)
                       THEN AnalysisResult(recent_pumps, task.symbol,
                                           buffers[task.symbol]["Min1"],
                                           buffers[task.symbol]["Min5"], now)
                       ELSE "none"
           signal   == PumpSignal(task.symbol, buffers[task.symbol]["Min1"],
                                  buffers[task.symbol]["Min5"], now, is_new)
       IN  /\ candle_history' = buffers
           /\ analysed' = result
           /\ IF result = "signal"
              THEN /\ recent_pumps' = AnalysisMarks(recent_pumps, task.symbol, now, "start")
                   /\ emitted' = Append(emitted, [at |-> now, signal |-> signal])
                   /\ callback_tasks' = [callback_tasks EXCEPT
                                            ![OldestReady].at = "notify_pump",
                                            ![OldestReady].signal = signal]
              ELSE /\ UNCHANGED <<recent_pumps, emitted>>
                   /\ callback_tasks' = RemoveAt(callback_tasks, OldestReady)
    /\ UNCHANGED <<sock, rankings, decision, tele, now, signal_tasks, mgrVars, botVars, conf, tick,
                   delivered, nfeeds, nticks, nsignals>>

\* analyze_pump_realtime from the await of notify_pump to its end: the task
\* for the registered callback is created.
ResumeDetector ==
    /\ \E i \in DOMAIN callback_tasks :
          /\ callback_tasks[i].at = "notify_pump"
          /\ recent_pumps' = AnalysisMarks(recent_pumps, callback_tasks[i].symbol, now,
                                           "notify_pump")
          /\ signal_tasks' = Append(signal_tasks, callback_tasks[i].signal)
          /\ callback_tasks' = RemoveAt(callback_tasks, i)
    /\ UNCHANGED <<sock, rankings, decision, tele, now, candle_history, emitted, analysed,
                   mgrVars, botVars, conf, tick, delivered, nfeeds, nticks, nsignals>>

\* StrategyManager.on_candle_update, and BotManager's if there is one.
RunManager ==
    /\ OldestReady # 0
    /\ callback_tasks[OldestReady].callback = "strategy_manager"
    /\ LET task == callback_tasks[OldestReady]
       IN  OnCandle(task.symbol, task.interval, task.candle)
    /\ callback_tasks' = RemoveAt(callback_tasks, OldestReady)
    /\ UNCHANGED <<sock, rankings, decision, tele, now, detVars, conf, delivered, nticks, nsignals>>

NextInter == Tick \/ NotifyTick \/ RunDetector \/ ResumeDetector \/ RunManager \/ Dispatch

SpecInter == InitDet /\ [][NextInter]_vars

\* The task that create_task made for the callback leaves the queue of the
\* event loop; Dispatch is the only step that takes it.
CallbackRuns == signal_tasks # <<>> /\ signal_tasks' = Tail(signal_tasks)

\* The pipeline on an event loop that keeps running: a task that is ready is
\* run.
SpecDetFair == InitDet /\ [][NextDet]_vars /\ WF_signal_tasks(CallbackRuns)

---------------------------------------------------------------------------
(* The same pipeline on two symbols with a history each: A's buffer holds a *)
(* candle that closed at 0.0, B's is quiet.                                 *)

GlitchHistoryLen == 21

\* New candles of either symbol, quiet or rising 6% on four times the volume.
GlitchFeedInputs ==
    {<<s, "Min1", sh, 60>> :
        s \in Symbols,
        sh \in {[open |-> 100000, close |-> 100000, volume |-> 1000],
                [open |-> 100000, close |-> 106000, volume |-> 4000]}}

InitGlitch ==
    /\ candle_history = [s \in Symbols |-> [iv \in Intervals |->
           IF iv = "Min5" THEN <<>>
           ELSE IF s = "A" THEN GlitchHistory(GlitchHistoryLen)
           ELSE QuietHistory(GlitchHistoryLen)]]
    /\ now = 60 * GlitchHistoryLen + 60
    /\ candle_buffer = candle_history
    /\ recent_pumps = [s \in {} |-> 0]
    /\ emitted = <<>>
    /\ analysed = "none"
    /\ signal_tasks = <<>>
    /\ strategies = [id \in StrategyIds |-> NewStrategy]
    /\ symbol_to_strategies = [s \in Symbols |-> {}]
    /\ bots = NoBots
    /\ trades = <<>>
    /\ conf = NoCall
    /\ tick = NoTick
    /\ delivered = NoSignal
    /\ sock = NoSock
    /\ rankings = NoRankings
    /\ decision = NoDecision
    /\ callback_tasks = <<>>
    /\ tele = NoTele
    /\ nfeeds = 0
    /\ nticks = 0
    /\ nsignals = 0

\* socket.notify, as in Feed.
GlitchFeed ==
    /\ nfeeds < MaxFeeds
    /\ signal_tasks = <<>>
    /\ \E inp \in GlitchFeedInputs :
          LET candle == TickCandle(candle_history[inp[1]][inp[2]], inp[3], inp[4])
          IN  /\ DetectorOnCandleUpdate(inp[1], inp[2], candle)
              /\ OnCandle(inp[1], inp[2], candle)
    /\ UNCHANGED <<sock, rankings, decision, callback_tasks, tele, now, conf, delivered, nticks, nsignals>>

NextGlitch == Tick \/ GlitchFeed \/ Dispatch

SpecGlitch == InitGlitch /\ [][NextGlitch]_vars

---------------------------------------------------------------------------
(* The trading layer: signals as PumpDetector emits them and candles reach  *)
(* the StrategyManager and the bots of the BotManager.                      *)

\* A signal of the detector for the symbol at the price.
SignalAt(symbol, price, t) ==
    [symbol           |-> symbol,
     candle_timestamp |-> (t \div 60) * 60,
     price            |-> price,
     price_change_1m  |-> 600,
     price_change_5m  |-> 0,
     volume_ratio     |-> 400,
     volume_usdt      |-> 4000 * price,
     rsi              |-> 10000,
     momentum         |-> 0,
     buy_pressure     |-> 1000,
     confidence       |-> 70,
     is_new_candle    |-> TRUE]

SignalInputs == {<<"A", 100000>>, <<"B", 100000>>}

\* Candles around the entry price 100: open, high, low, close.
CandleShapes == {
    <<102000, 104000, 102000, 104000>>,    \* above 100 throughout
    <<102000, 102000, 100000, 100000>>,    \* opens above 100, falls to it
    <<98000, 98000, 96000, 96000>>,        \* below 100 throughout
    <<98000, 100000, 98000, 100000>>,      \* opens below 100, rises to it
    <<100000, 108000, 100000, 108000>>,    \* rally
    <<100000, 100000, 94000, 94000>>,      \* sell-off
    <<100000, 110000, 94000, 100000>>,     \* whipsaw: beyond every level both ways
    <<98000, 98000, 94000, 94000>>,        \* opens below 100 and falls further
    <<99000, 99000, 98000, 98000>>,        \* a narrow candle below 100
    <<103000, 103000, 102000, 102000>> }   \* a narrow candle above 100
CandleInputs ==
    ({"A"} \X CandleShapes)
        \cup ({"B"} \X {<<100000, 100000, 94000, 94000>>})

InitTrade ==
    /\ now = 1200
    /\ candle_history = NoHistory
    /\ candle_buffer = NoHistory
    /\ recent_pumps = [s \in {} |-> 0]
    /\ emitted = <<>>
    /\ analysed = "none"
    /\ signal_tasks = <<>>
    /\ strategies = [id \in StrategyIds |-> NewStrategy]
    /\ symbol_to_strategies = [s \in Symbols |-> {}]
    /\ bots = [b \in BotIds |-> NewBot]
    /\ trades = <<>>
    /\ conf = NoCall
    /\ tick = NoTick
    /\ delivered = NoSignal
    /\ sock = NoSock
    /\ rankings = NoRankings
    /\ decision = NoDecision
    /\ callback_tasks = <<>>
    /\ tele = NoTele
    /\ nfeeds = 0
    /\ nticks = 0
    /\ nsignals = 0

\* A pump signal arrives.
Signal ==
    /\ nsignals < MaxSignals
    /\ nsignals + nfeeds + nticks < MaxSteps
    /\ \E inp \in SignalInputs : OnPumpSignalDetected(SignalAt(inp[1], inp[2], now))
    /\ UNCHANGED <<sock, rankings, decision, callback_tasks, tele, now, detVars, candle_buffer, conf, tick, nfeeds, nticks>>

\* A tick of the current one-minute candle arrives.
CandleUpdate ==
    /\ nfeeds < MaxCandles
    /\ nsignals + nfeeds + nticks < MaxSteps
    /\ \E inp \in CandleInputs :
          LET s == inp[2]
          IN  OnCandle(inp[1], "Min1",
                       Candle((now \div 60) * 60, s[1], s[2], s[3], s[4], 1000))
    /\ UNCHANGED <<sock, rankings, decision, callback_tasks, tele, now, detVars, conf, delivered, nticks, nsignals>>

\* A minute passes.
Minute ==
    /\ nticks < MaxMinutes
    /\ nsignals + nfeeds + nticks < MaxSteps
    /\ now' = now + 60
    /\ nticks' = nticks + 1
    /\ UNCHANGED <<sock, rankings, decision, callback_tasks, tele, detVars, mgrVars, botVars, conf, tick, delivered, nfeeds, nsignals>>

Next == Minute \/ Signal \/ CandleUpdate

Spec == InitTrade /\ [][Next]_vars

---------------------------------------------------------------------------
(* The strategy manager under signals of other producers: the population of *)
(* generate_strategies receives signals that carry the optional fields      *)
(* trend_strength and volume_consistency, as the test signal of             *)
(* MexcPumpBot.send_test_signal does, or hold None in them.  No BotManager  *)
(* is configured.                                                           *)

\* The signal with the optional fields set (hundredths).
WithTrend(signal, trend_strength, volume_consistency) ==
    [k \in DOMAIN signal \cup {"trend_strength", "volume_consistency"} |->
        IF k = "trend_strength" THEN trend_strength
        ELSE IF k = "volume_consistency" THEN volume_consistency
        ELSE signal[k]]

\* symbol, price, and the optional fields: absent, as the test signal has
\* them, or None for trend_strength.
GridSignalInputs ==
    {<<"A", 100000, "absent">>, <<"A", 100000, "test">>, <<"A", 100000, "None">>,
     <<"B", 100000, "absent">>, <<"B", 100000, "None">>}

GridSignal(inp, t) ==
    IF inp[3] = "absent" THEN SignalAt(inp[1], inp[2], t)
    ELSE IF inp[3] = "test" THEN WithTrend(SignalAt(inp[1], inp[2], t), 50, 60)
    ELSE WithTrend(SignalAt(inp[1], inp[2], t), None, 60)

InitGrid ==
    /\ now = 1200
    /\ candle_history = NoHistory
    /\ candle_buffer = NoHistory
    /\ recent_pumps = [s \in {} |-> 0]
    /\ emitted = <<>>
    /\ analysed = "none"
    /\ signal_tasks = <<>>
    /\ strategies = [id \in GridStrategyIds |-> NewStrategy]
    /\ symbol_to_strategies = [s \in Symbols |-> {}]
    /\ bots = NoBots
    /\ trades = <<>>
    /\ conf = NoCall
    /\ tick = NoTick
    /\ delivered = NoSignal
    /\ sock = NoSock
    /\ rankings = NoRankings
    /\ decision = NoDecision
    /\ callback_tasks = <<>>
    /\ tele = NoTele
    /\ nfeeds = 0
    /\ nticks = 0
    /\ nsignals = 0

\* A signal arrives at MexcPumpBot.on_pump_signal_detected.
SignalOfProducer ==
    /\ nsignals < MaxSignals
    /\ nsignals + nfeeds + nticks < MaxSteps
    /\ \E inp \in GridSignalInputs : OnPumpSignalDetected(GridSignal(inp, now))
    /\ UNCHANGED <<sock, rankings, decision, callback_tasks, tele, now, detVars, candle_buffer, conf, tick, nfeeds, nticks>>

NextGrid == Minute \/ SignalOfProducer \/ CandleUpdate

SpecGrid == InitGrid /\ [][NextGrid]_vars

---------------------------------------------------------------------------
(* Rankings of a population that has traded: each strategy has a history of *)
(* closed trades on A, entered at 100 and closed at its take-profit or its  *)
(* stop-loss, some hold a position on A that the next candles may close,    *)
(* and calculate_rankings is called between the candles as report_results   *)
(* does.  The ids above 7 are further SHORT copies of the last combination. *)

RankSizes == {3, 12}
Outcomes == << <<>>, <<"TP">>, <<"SL">>, <<"TP", "SL">>, <<"OPEN">>, <<"SL", "OPEN">> >>
OutcomeStrides == {0, 1, 5}
OutcomeShifts == 0..5

\* The strategy id after the trades of an outcome list.
RECURSIVE StrategyAfter(_, _)
StrategyAfter(id, outcomes) ==
    IF outcomes = <<>> THEN NewStrategy
    ELSE LET n       == Len(outcomes)
             entered == enter_position(StrategyAfter(id, SubSeq(outcomes, 1, n - 1)),
                                       Config(id), "A", 100000, 1140)
             position == entered.active_positions["A"]
         IN  IF outcomes[n] = "OPEN" THEN entered
             ELSE close_position(entered, "A",
                                 IF outcomes[n] = "TP" THEN position.take_profit
                                 ELSE position.stop_loss,
                                 outcomes[n], 1140)

RankPopulation(size, stride, shift) ==
    [id \in 1..size |-> StrategyAfter(id, Outcomes[((stride * id + shift) % Len(Outcomes)) + 1])]

InitRank ==
    /\ \E size \in RankSizes, stride \in OutcomeStrides, shift \in OutcomeShifts :
          /\ strategies = RankPopulation(size, stride, shift)
          /\ symbol_to_strategies =
                 [s \in Symbols |->
                     {id \in 1..size : s \in DOMAIN strategies[id].active_positions}]
    /\ now = 1200
    /\ candle_history = NoHistory
    /\ candle_buffer = NoHistory
    /\ recent_pumps = [s \in {} |-> 0]
    /\ emitted = <<>>
    /\ analysed = "none"
    /\ signal_tasks = <<>>
    /\ bots = NoBots
    /\ trades = <<>>
    /\ conf = NoCall
    /\ tick = NoTick
    /\ delivered = NoSignal
    /\ sock = NoSock
    /\ rankings = NoRankings
    /\ decision = NoDecision
    /\ callback_tasks = <<>>
    /\ tele = NoTele
    /\ nfeeds = 0
    /\ nticks = 0
    /\ nsignals = 0

\* report_results and the other callers rank the population.
CalculateRankings ==
    /\ calculate_rankings
    /\ UNCHANGED <<sock, decision, callback_tasks, tele, now, detVars, candle_buffer, symbol_to_strategies, botVars,
                   conf, tick, delivered, nfeeds, nticks, nsignals>>

NextRank == CalculateRankings \/ CandleUpdate

SpecRank == InitRank /\ [][NextRank]_vars

---------------------------------------------------------------------------
(* The simulated bots over a long hold: one signal for A, then the          *)
(* BotManager's candle callback and the clock, without end.  The clock      *)
(* moves in steps of five minutes and stands still once no trade is left    *)
(* that the decay of its take-profit has not yet brought to the stop-loss;  *)
(* candles of A keep arriving.                                              *)

ClockStep == 300

\* open, high, low, close: a quiet candle around 100 that fills either
\* order and reaches no level, one above 100 and one below.
HoldShapes == {
    <<100000, 101000, 99000, 100000>>,
    <<102000, 104000, 102000, 104000>>,
    <<98000, 98000, 96000, 96000>> }

\* Whether the decay has not yet brought the take-profit of b's trade on
\* symbol down to the stop-loss.
Decaying(b, symbol) ==
    /\ symbol \in DOMAIN bots[b].trade_reduce_info
    /\ MinutesHeld(bots[b].trade_reduce_info[symbol], now) * reduce(BotConfig(b)) < 100

InitHold ==
    /\ now = 1200
    /\ candle_history = NoHistory
    /\ candle_buffer = NoHistory
    /\ recent_pumps = [s \in {} |-> 0]
    /\ emitted = <<>>
    /\ analysed = "none"
    /\ signal_tasks = <<>>
    /\ strategies = [id \in StrategyIds |-> NewStrategy]
    /\ symbol_to_strategies = [s \in Symbols |-> {}]
    /\ bots = [b \in BotIds |-> NewBot]
    /\ trades = <<>>
    /\ conf = NoCall
    /\ tick = NoTick
    /\ delivered = NoSignal
    /\ sock = NoSock
    /\ rankings = NoRankings
    /\ decision = NoDecision
    /\ callback_tasks = <<>>
    /\ tele = NoTele
    /\ nfeeds = 0
    /\ nticks = 0
    /\ nsignals = 0

\* BotManager.on_signal: the one signal of the run.
HoldSignal ==
    /\ trades = <<>>
    /\ LET signal == SignalAt("A", 100000, now)
           w == BroadcastSignal([bots |-> bots, trades |-> trades], DOMAIN bots,
                                signal, now)
       IN  /\ bots' = w.bots
           /\ trades' = w.trades
           /\ delivered' = [signal |-> signal, at |-> now]
    /\ UNCHANGED <<sock, rankings, decision, callback_tasks, tele, now, detVars, mgrVars, conf, tick,
                   nfeeds, nticks, nsignals>>

\* The tick of the current one-minute candle of A of a shape.
HoldTick(s) ==
    [symbol |-> "A", interval |-> "Min1",
     candle |-> Candle((now \div 60) * 60, s[1], s[2], s[3], s[4], 1000)]

\* BotManager.on_candle_update: a tick of the current one-minute candle of A.
HoldCandle ==
    /\ \E s \in HoldShapes :
          LET w == BroadcastCandle([bots |-> bots, trades |-> trades], DOMAIN bots,
                                   "A", HoldTick(s).candle, now)
          IN  /\ bots' = w.bots
              /\ trades' = w.trades
              /\ tick' = HoldTick(s)
    /\ UNCHANGED <<sock, rankings, decision, callback_tasks, tele, now, detVars, mgrVars, conf, delivered,
                   nfeeds, nticks, nsignals>>

\* Five minutes pass.
HoldClock ==
    /\ \/ trades = <<>> /\ now < 1200 + MaxIdleSteps * ClockStep
       \/ \E b \in DOMAIN bots : Decaying(b, "A")
    /\ now' = now + ClockStep
    /\ UNCHANGED <<sock, rankings, decision, callback_tasks, tele, detVars, mgrVars, botVars, conf, tick, delivered,
                   nfeeds, nticks, nsignals>>

NextHold == HoldSignal \/ HoldCandle \/ HoldClock

\* The socket delivers a tick of A; HoldCandle is the only step that does.
CandleArrives == \E s \in HoldShapes : tick' = HoldTick(s)

\* Time passes, and candles of A keep arriving: a tick that differs from the
\* last one can always arrive.
SpecHold == InitHold /\ [][NextHold]_vars /\ WF_vars(HoldClock) /\ WF_tick(CandleArrives)

---------------------------------------------------------------------------
(* calculate_confidence on its own: one call on arguments of every kind *)

PriceChanges1m == {0 - 1000, 0, 300, 600, 2000}
PriceChanges5m == {0 - 500, 0, 800}
VolumeRatios == {0, 100, 300, 1000}
RsiValues == {None, 0, 6500, 10000}
Momentums == {0 - 100, 100, 200}
BuyPressures == {0, 6000, 10000}

InitConf ==
    /\ \E p1 \in PriceChanges1m, p5 \in PriceChanges5m, v \in VolumeRatios,
          r \in RsiValues, m \in Momentums, bp \in BuyPressures :
          conf = [price_1m |-> p1, price_5m |-> p5, volume_ratio |-> v, rsi |-> r,
                  momentum |-> m, buy_pressure |-> bp, computed |-> FALSE,
                  confidence |-> 0]
    /\ now = 0
    /\ candle_history = NoHistory
    /\ candle_buffer = NoHistory
    /\ recent_pumps = [s \in {} |-> 0]
    /\ emitted = <<>>
    /\ analysed = "none"
    /\ signal_tasks = <<>>
    /\ strategies = [id \in StrategyIds |-> NewStrategy]
    /\ symbol_to_strategies = [s \in Symbols |-> {}]
    /\ bots = NoBots
    /\ trades = <<>>
    /\ tick = NoTick
    /\ delivered = NoSignal
    /\ sock = NoSock
    /\ rankings = NoRankings
    /\ decision = NoDecision
    /\ callback_tasks = <<>>
    /\ tele = NoTele
    /\ nfeeds = 0
    /\ nticks = 0
    /\ nsignals = 0

Compute ==
    /\ ~conf.computed
    /\ conf' = [conf EXCEPT
                   !.computed = TRUE,
                   !.confidence = calculate_confidence(conf.price_1m, conf.price_5m,
                                      conf.volume_ratio, conf.rsi, conf.momentum,
                                      conf.buy_pressure)]
    /\ UNCHANGED <<sock, rankings, decision, callback_tasks, tele, now, detVars, mgrVars, botVars, tick, delivered,
                   nfeeds, nticks, nsignals>>

NextConf == Compute

SpecConf == InitConf /\ [][NextConf]_vars

---------------------------------------------------------------------------
(* should_enter on its own: one call of TradingStrategy.should_enter and of *)
(* TradingBot.should_enter on a configuration and a signal of every kind    *)

\* A field a signal does not carry.
Absent == 0 - 2

\* The dict with the one key, or the empty dict when the value is absent.
Field(key, value) == IF value = Absent THEN <<>> ELSE key :> value

EnterSignal(tf, c1, c5, v, r, cf, t, b, vc) ==
    [symbol |-> "A", price |-> 100000]
        @@ (IF tf = "" THEN <<>> ELSE "timeframe" :> tf)
        @@ Field("price_change_1m", c1) @@ Field("price_change_5m", c5)
        @@ Field("volume_ratio", v) @@ Field("rsi", r) @@ Field("confidence", cf)
        @@ Field("trend_strength", t)
        @@ (IF b = Absent THEN <<>> ELSE "is_breakout" :> (b = 1))
        @@ Field("volume_consistency", vc)

\* What a call returns: "True", "False", or the TypeError it raises.
ShouldEnterResult(config, signal) ==
    IF should_enter_raises(config, signal) THEN "TypeError"
    ELSE IF should_enter(config, signal) THEN "True" ELSE "False"
BotShouldEnterResult(cfg, signal) ==
    IF should_enter_raises(cfg, signal) THEN "TypeError"
    ELSE IF bot_should_enter(cfg, signal) THEN "True" ELSE "False"

\* The configurations differ in timeframe and in the three optional filters;
\* the values of a signal's fields lie around their thresholds, and rsi,
\* trend_strength and volume_consistency may be None.
InitEnter ==
    /\ \E tf \in {"1m", "5m"}, trend \in {0, 30}, rb \in BOOLEAN, cons \in {0, 60},
          stf \in {"", "1m", "5m"},
          c1 \in {Absent, 100, 200}, c5 \in {Absent, 100, 200},
          v \in {200, 300}, r \in {Absent, None, 6900, 7000}, cf \in {69, 70},
          t \in {Absent, None, 20, 30}, b \in {Absent, 0, 1},
          vc \in {Absent, None, 50, 60} :
          decision = [config |-> [StrategyConfig("LONG", 5, 2, FALSE, trend) EXCEPT
                                     !.timeframe = tf, !.require_breakout = rb,
                                     !.min_volume_consistency = cons],
                      signal |-> EnterSignal(stf, c1, c5, v, r, cf, t, b, vc),
                      computed |-> FALSE, strategy |-> "", bot |-> ""]
    /\ now = 0
    /\ candle_history = NoHistory
    /\ candle_buffer = NoHistory
    /\ recent_pumps = [s \in {} |-> 0]
    /\ emitted = <<>>
    /\ analysed = "none"
    /\ signal_tasks = <<>>
    /\ strategies = [id \in StrategyIds |-> NewStrategy]
    /\ symbol_to_strategies = [s \in Symbols |-> {}]
    /\ bots = NoBots
    /\ trades = <<>>
    /\ conf = NoCall
    /\ tick = NoTick
    /\ delivered = NoSignal
    /\ sock = NoSock
    /\ rankings = NoRankings
    /\ callback_tasks = <<>>
    /\ tele = NoTele
    /\ nfeeds = 0
    /\ nticks = 0
    /\ nsignals = 0

ShouldEnter ==
    /\ ~decision.computed
    /\ decision' = [decision EXCEPT
                       !.computed = TRUE,
                       !.strategy = ShouldEnterResult(decision.config, decision.signal),
                       !.bot = BotShouldEnterResult(decision.config, decision.signal)]
    /\ UNCHANGED <<sock, rankings, callback_tasks, tele, now, detVars, mgrVars, botVars, conf, tick, delivered,
                   nfeeds, nticks, nsignals>>

NextEnter == ShouldEnter

SpecEnter == InitEnter /\ [][NextEnter]_vars

---------------------------------------------------------------------------
(* The exchange feeds the socket: the listen loop hands every message to   *)
(* notify, and the event loop runs the callback tasks in between.          *)

\* The symbols of the stream: every tick of B, every second or every third.
StreamPatterns == {1, 2, 3}
TickSymbol(pattern, seq) == IF seq % pattern = 0 THEN "B_USDT" ELSE "A_USDT"

InitSock ==
    /\ \E kind \in SockKinds, n \in CallbackCounts, pattern \in StreamPatterns :
          sock = NewSock(kind, SubSeq(Callbacks, 1, n), pattern)
    /\ rankings = NoRankings
    /\ decision = NoDecision
    /\ callback_tasks = <<>>
    /\ tele = NoTele
    /\ now = 0
    /\ candle_history = NoHistory
    /\ candle_buffer = NoHistory
    /\ recent_pumps = [s \in {} |-> 0]
    /\ emitted = <<>>
    /\ analysed = "none"
    /\ signal_tasks = <<>>
    /\ strategies = [id \in StrategyIds |-> NewStrategy]
    /\ symbol_to_strategies = [s \in Symbols |-> {}]
    /\ bots = NoBots
    /\ trades = <<>>
    /\ conf = NoCall
    /\ tick = NoTick
    /\ delivered = NoSignal
    /\ nfeeds = 0
    /\ nticks = 0
    /\ nsignals = 0

\* listen: the next message of the stream is handed to notify, right after
\* the message before it or once the tasks created so far have run.
SockNotify ==
    /\ sock.produced < MaxNotifies
    /\ ~sock.awaiting
    /\ sock.ready = <<>> \/ sock.op \in {"created", "dropped"}
    /\ LET seq    == sock.produced + 1
           symbol == TickSymbol(sock.pattern, seq)
           after  == IF sock.kind = "mexc" THEN MexcNotify(sock, symbol, seq)
                     ELSE GateNotify(sock, symbol, seq)
       IN  sock' = [after EXCEPT !.produced = seq]
    /\ UNCHANGED <<now, detVars, mgrVars, botVars, conf, tick, delivered,
                   rankings, decision, callback_tasks, tele, nfeeds, nticks, nsignals>>

\* The event loop runs the next ready task.
SockRun ==
    /\ sock.ready # <<>>
    /\ sock' = RunTask(sock)
    /\ UNCHANGED <<now, detVars, mgrVars, botVars, conf, tick, delivered,
                   rankings, decision, callback_tasks, tele, nfeeds, nticks, nsignals>>

NextSock == SockNotify \/ SockRun

SpecSock == InitSock /\ [][NextSock]_vars

---------------------------------------------------------------------------
(* The claims *)

\* C1: a strategy or bot holds at most one open position per symbol, and a
\* signal for symbol S delivered while it holds a position on S (or has a
\* pending order for one) leaves the position's entry price, quantity,
\* take-profit and stop-loss unchanged.
C1_OnePositionPerSymbol ==
    [][ /\ \A b \in DOMAIN bots', s \in Symbols :
              Cardinality({i \in DOMAIN trades' :
                              /\ trades'[i].bot_config_id = b
                              /\ trades'[i].symbol = s
                              /\ trades'[i].status = "OPEN"}) <= 1
        /\ (nsignals' = nsignals + 1) =>
              LET S == delivered'.signal.symbol
              IN  /\ \A id \in StrategyIds :
                         S \in DOMAIN strategies[id].active_positions =>
                            /\ S \in DOMAIN strategies'[id].active_positions
                            /\ LET old == strategies[id].active_positions[S]
                                   new == strategies'[id].active_positions[S]
                               IN  /\ new.entry_price = old.entry_price
                                   /\ new.quantity = old.quantity
                                   /\ new.take_profit = old.take_profit
                                   /\ new.stop_loss = old.stop_loss
                  /\ \A b \in DOMAIN bots :
                         (S \in DOMAIN bots[b].active_trades
                             \/ S \in DOMAIN bots[b].pending_orders) =>
                            /\ bots'[b] = bots[b]
                            /\ \A i \in DOMAIN trades' :
                                  trades'[i].bot_config_id = b =>
                                     /\ i \in DOMAIN trades
                                     /\ trades'[i].entry_price = trades[i].entry_price
                                     /\ trades'[i].quantity = trades[i].quantity
                                     /\ trades'[i].take_profit = trades[i].take_profit
                                     /\ trades'[i].stop_loss = trades[i].stop_loss
      ]_vars

\* C1's case: the last signal would have been taken by a strategy and by a
\* bot, and each still holds the position it had on the symbol before.
C1_SignalWhileHolding ==
    LET S == delivered.signal.symbol
    IN  /\ nsignals >= 2
        /\ \E id \in StrategyIds :
              /\ S \in DOMAIN strategies[id].active_positions
              /\ strategies[id].active_positions[S].entry_time < delivered.at
              /\ should_enter(Config(id), WithTimeframe(delivered.signal, "1m"))
        /\ \E b \in DOMAIN bots :
              /\ S \in DOMAIN bots[b].active_trades
              /\ trades[bots[b].active_trades[S]].entry_time < delivered.at
              /\ bot_should_enter(BotConfig(b), delivered.signal)

\* C2: two signals PumpDetector emits for the same symbol are at least
\* pump_cooldown_seconds apart, whatever ticks arrive in between.
C2_CooldownEnforcement ==
    \A i, j \in DOMAIN emitted :
        (i < j /\ emitted[i].signal.symbol = emitted[j].signal.symbol) =>
            emitted[j].at >= emitted[i].at + pump_cooldown_seconds

\* C2's case: the symbol of the last tick is in cooldown after a signal, and
\* the tick would have produced a signal had it not been.
C2_QualifyingTickInCooldown ==
    /\ analysed = "cooldown"
    /\ \E i \in DOMAIN emitted : emitted[i].signal.symbol = tick.symbol
    /\ AnalysisResult([s \in {} |-> 0], tick.symbol,
                      candle_history[tick.symbol]["Min1"],
                      candle_history[tick.symbol]["Min5"], now) = "signal"

\* C3: PumpDetector emits no signal for a symbol while some adjacent pair
\* among the last pump_lookback_candles closed Min1 candles (the current
\* candle excluded) has a price change of at least
\* recent_pump_price_threshold on a volume of at least
\* recent_pump_volume_threshold times the mean of the ten candles before it.
C3_RecentPumpDedup ==
    [][ (Len(emitted') = Len(emitted) + 1) =>
           LET candles == candle_history'[emitted'[Len(emitted')].signal.symbol]["Min1"]
               closed  == SubSeq(candles, 1, Len(candles) - 1)
               first   == Max2(1, Len(closed) - pump_lookback_candles + 1)
               window  == SubSeq(closed, first, Len(closed))
           IN  ~ \E k \in 11..Len(window) :
                    /\ (window[k].close - window[k - 1].close) * 100
                           >= (recent_pump_price_threshold \div 100) * window[k - 1].close
                    /\ window[k].volume * 10 * 100
                           >= recent_pump_volume_threshold
                                * SumSeq(Volumes(SubSeq(window, k - 10, k - 1)))
      ]_vars

\* C4: a tick whose timestamp equals that of the latest buffered candle of
\* its (symbol, interval) replaces that candle in place, in the detector's
\* buffer and in the manager's: the length and every earlier candle are
\* unchanged, and so is every other buffer.
C4_IntraCandleUpdate ==
    [][ (nfeeds' = nfeeds + 1) =>
           LET s  == tick'.symbol
               iv == tick'.interval
               c  == tick'.candle
               InPlace(old, new) ==
                   (Len(old) > 0 /\ c.timestamp = old[Len(old)].timestamp) =>
                      /\ Len(new) = Len(old)
                      /\ \A k \in 1..(Len(old) - 1) : new[k] = old[k]
                      /\ new[Len(new)] = c
           IN  /\ InPlace(candle_history[s][iv], candle_history'[s][iv])
               /\ InPlace(candle_buffer[s][iv], candle_buffer'[s][iv])
               /\ \A s2 \in Symbols, iv2 \in Intervals :
                     <<s2, iv2>> # <<s, iv>> =>
                        /\ candle_history'[s2][iv2] = candle_history[s2][iv2]
                        /\ candle_buffer'[s2][iv2] = candle_buffer[s2][iv2]
      ]_vars

\* C4's case: a signal was emitted on a candle, and a later tick of the same
\* candle with another close has taken its place behind the candle before it.
C4_CandleReplaced ==
    LET history == candle_history[tick.symbol][tick.interval]
    IN  /\ tick.interval = "Min1"
        /\ Len(history) >= 2
        /\ history[Len(history)] = tick.candle
        /\ candle_buffer[tick.symbol][tick.interval] = history
        /\ history[Len(history) - 1].timestamp < tick.candle.timestamp
        /\ \E i \in DOMAIN emitted :
              /\ emitted[i].signal.symbol = tick.symbol
              /\ emitted[i].signal.candle_timestamp = tick.candle.timestamp
              /\ emitted[i].signal.price # tick.candle.close

\* C5: a tick older than the latest buffered candle of its (symbol, interval)
\* changes nothing: the buffers are unchanged, no pump analysis runs, no
\* signal is emitted and no strategy exit is evaluated.
C5_OutOfOrderRejection ==
    [][ (/\ nfeeds' = nfeeds + 1
         /\ Len(candle_history[tick'.symbol][tick'.interval]) > 0
         /\ tick'.candle.timestamp
               < candle_history[tick'.symbol][tick'.interval]
                     [Len(candle_history[tick'.symbol][tick'.interval])].timestamp) =>
           /\ candle_history' = candle_history
           /\ candle_buffer' = candle_buffer
           /\ analysed' = "none"
           /\ emitted' = emitted
           /\ recent_pumps' = recent_pumps
           /\ signal_tasks' = signal_tasks
           /\ strategies' = strategies
      ]_vars

\* C5's case: the last tick is older than the latest buffered candle, and a
\* strategy holds a position on its symbol that the tick's prices would close.
C5_StaleTickWouldExit ==
    LET history == candle_history[tick.symbol][tick.interval]
    IN  /\ nfeeds >= 1
        /\ Len(history) > 0
        /\ tick.candle.timestamp < history[Len(history)].timestamp
        /\ \E id \in StrategyIds :
              /\ tick.symbol \in DOMAIN strategies[id].active_positions
              /\ ExitInfo(TrailedPosition(Config(id),
                              strategies[id].active_positions[tick.symbol],
                              tick.candle), tick.candle) # NoExit

\* C6: calculate_confidence returns a value in 0..100 for every 1m and 5m
\* price change, volume ratio, RSI or missing RSI, momentum and buy pressure,
\* and the confidence of every emitted signal is in 0..100.
C6_ConfidenceBound ==
    /\ conf.computed => (0 <= conf.confidence /\ conf.confidence <= 100)
    /\ \A i \in DOMAIN emitted :
          0 <= emitted[i].signal.confidence /\ emitted[i].signal.confidence <= 100

\* C7: when a Min1 tick is analysed for a symbol that is not in cooldown, has
\* no recent pump in the lookback window and has at least 20 buffered Min1
\* candles, a signal is emitted if and only if the 1m price change, the
\* volume ratio, the notional volume and the confidence all reach their
\* thresholds.
C7_PumpGate ==
    [][ (nfeeds' = nfeeds + 1 /\ tick'.interval = "Min1") =>
           LET s   == tick'.symbol
               old == candle_history[s]["Min1"]
               c1  == candle_history'[s]["Min1"]
               c5  == candle_history'[s]["Min5"]
               cur == c1[Len(c1)]
               priceChange1m == calculate_price_change_realtime(c1, 1)
               priceChange5m == IF Len(c5) >= 5
                                THEN calculate_price_change_realtime(c5, 5) ELSE 0
               volumeRatio   == calculate_volume_spike_realtime(c1, now)
               confidence    == calculate_confidence(priceChange1m, priceChange5m,
                                    volumeRatio, calculate_rsi(c1),
                                    calculate_momentum(c1), calculate_buy_pressure(c1))
           IN  (/\ Len(old) > 0
                /\ tick'.candle.timestamp >= old[Len(old)].timestamp
                /\ ~is_in_cooldown(recent_pumps, s, now)
                /\ ~has_recent_pump(c1)
                /\ Len(c1) >= 20) =>
                  ( (/\ Len(emitted') = Len(emitted) + 1
                     /\ emitted'[Len(emitted')].signal.symbol = s
                     /\ recent_pumps' = MarkPump(recent_pumps, s, now))
                    <=> (/\ priceChange1m >= price_increase_1m
                         /\ volumeRatio >= volume_spike_multiplier
                         /\ cur.volume * cur.close >= min_volume_usdt * 1000
                         /\ confidence >= min_confidence) )
      ]_vars

\* C7's case: the last tick passed the gate and its signal was emitted.
C7_GatePassed ==
    /\ analysed = "signal"
    /\ tick.interval = "Min1"
    /\ emitted # <<>>
    /\ emitted[Len(emitted)].signal.symbol = tick.symbol
    /\ emitted[Len(emitted)].signal.price = tick.candle.close
    /\ emitted[Len(emitted)].signal.volume_ratio >= volume_spike_multiplier

\* C8: from one candle update to the next the take-profit of an open LONG
\* trade never increases and never falls below its stop-loss; that of an
\* open SHORT trade never decreases and never rises above its stop-loss.
C8_ReduceTpMonotone ==
    [][ \A i \in DOMAIN trades :
           (trades[i].status = "OPEN" /\ trades'[i].status = "OPEN") =>
              IF trades[i].direction = "LONG"
              THEN /\ trades'[i].take_profit <= trades[i].take_profit
                   /\ trades'[i].take_profit >= trades'[i].stop_loss
              ELSE /\ trades'[i].take_profit >= trades[i].take_profit
                   /\ trades'[i].take_profit <= trades'[i].stop_loss
      ]_vars

\* C9: the strategies a candle closes when it is dispatched through the
\* symbol index are the strategies the scan of the whole population closes.
C9_SymbolIndexEquivalence ==
    [][ (nfeeds' = nfeeds + 1) =>
           ClosedThroughIndex(symbol_to_strategies, strategies,
                              tick'.symbol, tick'.candle)
             = {id \in StrategyIds :
                   Len(strategies'[id].trade_history) > Len(strategies[id].trade_history)}
      ]_vars

\* C9's case: the last candle closed the position of one strategy on its
\* symbol and left open the position of another on the same symbol.
C9_CandleClosedSome ==
    /\ nfeeds >= 1
    /\ \E id \in StrategyIds :
          /\ strategies[id].trade_history # <<>>
          /\ tick.symbol \notin DOMAIN strategies[id].active_positions
          /\ LET last == strategies[id].trade_history[Len(strategies[id].trade_history)]
             IN  last.symbol = tick.symbol /\ last.exit_time = now
    /\ \E id \in StrategyIds : tick.symbol \in DOMAIN strategies[id].active_positions
    /\ \E id \in StrategyIds, s \in Symbols \ {tick.symbol} :
          s \in DOMAIN strategies[id].active_positions

\* C10: a closed LONG trade that exited above its entry has pnl_usdt > 0 and
\* one that exited below has pnl_usdt < 0; a closed SHORT trade that exited
\* above its entry has pnl_usdt < 0 and one that exited below has
\* pnl_usdt > 0.  For a strategy this is read on its trade records, for a
\* bot on the Trade row as close_trade leaves it.
C10_PnlSign ==
    [][ LET Signed(direction, entry, exit, pnl) ==
                IF direction = "LONG"
                THEN (exit > entry => pnl > 0) /\ (exit < entry => pnl < 0)
                ELSE (exit > entry => pnl < 0) /\ (exit < entry => pnl > 0)
        IN  /\ \A id \in StrategyIds :
                  \A k \in DOMAIN strategies'[id].trade_history :
                      LET r == strategies'[id].trade_history[k]
                      IN  Signed(r.direction, r.entry_price, r.exit_price, r.pnl_usdt)
            /\ \A i \in DOMAIN trades :
                  (trades[i].status = "OPEN" /\ trades'[i].status = "CLOSED") =>
                      Signed(trades'[i].direction, trades'[i].entry_price,
                             trades'[i].exit_price, trades'[i].pnl_usdt)
      ]_vars

\* C10's case: a SHORT strategy trade closed above its entry, a LONG one
\* closed above its entry, and a bot trade closed below its entry.
C10_ClosedBothWays ==
    /\ \E id \in StrategyIds : \E k \in DOMAIN strategies[id].trade_history :
          /\ strategies[id].trade_history[k].direction = "SHORT"
          /\ strategies[id].trade_history[k].exit_price
                > strategies[id].trade_history[k].entry_price
    /\ \E id \in StrategyIds : \E k \in DOMAIN strategies[id].trade_history :
          /\ strategies[id].trade_history[k].direction = "LONG"
          /\ strategies[id].trade_history[k].exit_price
                > strategies[id].trade_history[k].entry_price
    /\ \E i \in DOMAIN trades :
          /\ trades[i].status = "CLOSED"
          /\ trades[i].exit_price < trades[i].entry_price

\* C11: a position leaves at its level, not at a price of the candle.  The
\* record a strategy appends for an exit carries the take-profit the position
\* had (reason TP) or the stop-loss it has after trailing (reason SL); the
\* Trade row a bot closes carries its current take-profit (reason TP or
\* TP_REDUCED) or its current stop-loss (reason SL).
C11_ExitAtLevel ==
    [][ (nfeeds' = nfeeds + 1) =>
           LET S == tick'.symbol
               c == tick'.candle
           IN  /\ \A id \in StrategyIds :
                     Len(strategies'[id].trade_history)
                           > Len(strategies[id].trade_history) =>
                        LET r == strategies'[id].trade_history
                                     [Len(strategies'[id].trade_history)]
                            p == strategies[id].active_positions[S]
                        IN  \/ r.reason = "TP" /\ r.exit_price = p.take_profit
                            \/ /\ r.reason = "SL"
                               /\ r.exit_price
                                     = TrailedPosition(Config(id), p, c).stop_loss
               /\ \A i \in DOMAIN trades :
                     (trades[i].status = "OPEN" /\ trades'[i].status = "CLOSED") =>
                        \/ /\ trades'[i].exit_reason \in {"TP", "TP_REDUCED"}
                           /\ trades'[i].exit_price = trades'[i].take_profit
                        \/ /\ trades'[i].exit_reason = "SL"
                           /\ trades'[i].exit_price = trades'[i].stop_loss
      ]_vars

\* C11's case: the LONG strategy that entered at 100 with a take-profit of 5%
\* left at exactly 105 on a candle that closed elsewhere, and a bot trade was
\* closed at its stop-loss by a candle that closed beyond it.
C11_ClosedAtLevel ==
    /\ nfeeds >= 1
    /\ \E k \in DOMAIN strategies[1].trade_history :
          LET r == strategies[1].trade_history[k]
          IN  /\ r.symbol = tick.symbol
              /\ r.exit_time = now
              /\ r.entry_price = 100000
              /\ r.reason = "TP"
              /\ r.exit_price = 105000
              /\ tick.candle.close # 105000
    /\ \E i \in DOMAIN trades :
          /\ trades[i].status = "CLOSED"
          /\ trades[i].exit_reason = "SL"
          /\ trades[i].exit_price # tick.candle.close

\* C12: when one candle meets both the take-profit and the stop-loss
\* condition of an open position (LONG: high >= TP and low <= SL; SHORT:
\* low <= TP and high >= SL), the position is closed at the take-profit with
\* a TP reason, never with SL.
C12_TpBeforeSl ==
    [][ (nfeeds' = nfeeds + 1) =>
           LET S == tick'.symbol
               c == tick'.candle
               Both(direction, tp, sl) ==
                   IF direction = "LONG" THEN c.high >= tp /\ c.low <= sl
                   ELSE c.low <= tp /\ c.high >= sl
           IN  /\ \A id \in StrategyIds :
                     (/\ S \in DOMAIN strategies[id].active_positions
                      /\ Both(strategies[id].active_positions[S].direction,
                              strategies[id].active_positions[S].take_profit,
                              strategies[id].active_positions[S].stop_loss)) =>
                        /\ S \notin DOMAIN strategies'[id].active_positions
                        /\ Len(strategies'[id].trade_history)
                              = Len(strategies[id].trade_history) + 1
                        /\ LET r == strategies'[id].trade_history
                                        [Len(strategies'[id].trade_history)]
                           IN  /\ r.reason = "TP"
                               /\ r.exit_price
                                     = strategies[id].active_positions[S].take_profit
               /\ \A i \in DOMAIN trades :
                     (/\ trades[i].status = "OPEN"
                      /\ trades[i].symbol = S
                      /\ Both(trades'[i].direction, trades'[i].take_profit,
                              trades'[i].stop_loss)) =>
                        /\ trades'[i].status = "CLOSED"
                        /\ trades'[i].exit_reason \in {"TP", "TP_REDUCED"}
                        /\ trades'[i].exit_price = trades'[i].take_profit
      ]_vars

\* C12's case: the last candle went beyond the take-profit and beyond the
\* stop-loss of a LONG and of a SHORT bot trade and of a strategy's position,
\* and closed all three.
C12_BothLevelsMet ==
    /\ nfeeds >= 1
    /\ \E i, j \in DOMAIN trades :
          /\ trades[i].direction = "LONG" /\ trades[j].direction = "SHORT"
          /\ \A k \in {i, j} :
                /\ trades[k].symbol = tick.symbol
                /\ trades[k].status = "CLOSED"
                /\ trades[k].exit_price = trades[k].take_profit
          /\ tick.candle.high >= trades[i].take_profit
          /\ tick.candle.low <= trades[i].stop_loss
          /\ tick.candle.low <= trades[j].take_profit
          /\ tick.candle.high >= trades[j].stop_loss
    /\ \E id \in StrategyIds : \E k \in DOMAIN strategies[id].trade_history :
          LET r == strategies[id].trade_history[k]
          IN  /\ r.symbol = tick.symbol /\ r.exit_time = now /\ r.reason = "TP"
              /\ tick.candle.high >= 105000 /\ tick.candle.low <= 94000

\* C13: handing a tick to the socket never waits for a consumer; the tasks
\* queued for the callbacks never exceed the configured capacity
\* (max_pending_tasks); a tick that arrives when the capacity is reached is
\* dropped, and the tasks already queued are kept.
C13_LossyBackpressure ==
    [][ /\ PendingTasks(sock'.ready) <= max_pending_tasks
        /\ (sock'.produced = sock.produced + 1) =>
               /\ SubSeq(sock'.ready, 1, Len(sock.ready)) = sock.ready
               /\ (PendingTasks(sock.ready) >= max_pending_tasks
                      => sock'.ready = sock.ready /\ sock'.dropped = sock.dropped + 1)
      ]_vars

C14_FailureIsolation ==
    [][ (nsignals' = nsignals + 1) =>
            LET signal == WithTimeframe(delivered'.signal, "1m")
                S == signal.symbol
            IN  \A id \in DOMAIN strategies :
                    (/\ ~should_enter_raises(Config(id), signal)
                     /\ should_enter(Config(id), signal)
                     /\ S \notin DOMAIN strategies[id].active_positions)
                        => S \in DOMAIN strategies'[id].active_positions
      ]_vars

C16_TerminalStates ==
    [][ \A i \in DOMAIN trades :
            /\ trades[i].status = "CLOSED" =>
                   /\ trades'[i].status = "CLOSED"
                   /\ trades'[i].entry_price = trades[i].entry_price
                   /\ trades'[i].take_profit = trades[i].take_profit
                   /\ trades'[i].stop_loss = trades[i].stop_loss
            /\ trades[i].status = "CANCELLED" => trades'[i].status = "CANCELLED"
      ]_vars

\* C17: for a bot configured with reduce 0 the take-profit of every open
\* trade stays at its initial take-profit and no trade is closed with reason
\* TP_REDUCED; a strategy, which has no reduce, keeps the take-profit its
\* position was entered with.
C17_ReduceDisabledAtZero ==
    /\ \A i \in DOMAIN trades :
           LET b == trades[i].bot_config_id
               S == trades[i].symbol
           IN  BotConfig(b).reduce = 0 =>
                  /\ trades[i].exit_reason # "TP_REDUCED"
                  /\ (trades[i].status = "OPEN" /\ S \in DOMAIN bots[b].trade_reduce_info)
                         => trades[i].take_profit = bots[b].trade_reduce_info[S].initial_tp
    /\ \A id \in DOMAIN strategies : \A S \in DOMAIN strategies[id].active_positions :
           LET position == strategies[id].active_positions[S]
           IN  position.take_profit =
                   NewPosition(Config(id), S, position.entry_price, 0).take_profit

\* C19: recent_pumps keeps no expired entry: when a Min1 tick of a symbol has
\* been analysed, the symbol's entry is gone if its cooldown had expired,
\* unless the tick itself produced a signal and marked the symbol anew.
C19_CachesPruned ==
    [][ (nfeeds' = nfeeds + 1 /\ analysed' # "none") =>
            LET S == tick'.symbol
            IN  (S \in DOMAIN recent_pumps
                    /\ ~(now - recent_pumps[S] < pump_cooldown_seconds))
                   => (S \notin DOMAIN recent_pumps' \/ analysed' = "signal")
      ]_vars

\* C20: the trade history of a strategy never grows beyond a fixed cap, the
\* oldest records being evicted, while records are otherwise only appended:
\* across any step the history keeps a suffix of its records, with any new
\* ones appended to it, and holds at most HistoryCap records.
C20_BoundedTradeHistory ==
    [][ \A id \in DOMAIN strategies :
            LET old == strategies[id].trade_history
                new == strategies'[id].trade_history
            IN  /\ Len(new) <= HistoryCap
                /\ \E k \in 0..Len(old), n \in 0..Len(new) :
                       /\ k + n = Len(new)
                       /\ SubSeq(new, 1, k) = SubSeq(old, Len(old) - k + 1, Len(old))
      ]_vars

\* The strategies of a population that have closed trades.
WithTrades(pop) == {id \in DOMAIN pop : pop[id].total_trades > 0}

\* C21: after calculate_rankings on a population in which a strategy has
\* closed trades, top_strategies holds only strategies with trades, at most
\* 10 of them, in descending order of total_pnl; best_strategy has the
\* greatest total_pnl of the strategies with trades, best_long and best_short
\* the greatest among the LONG and among the SHORT strategies with trades.
C21_Ranking ==
    [][ (nfeeds' = nfeeds /\ WithTrades(strategies) # {}) =>
           LET pop == strategies'
               top == rankings'.top_strategies
               BestOf(best, direction) ==
                   LET group == {id \in WithTrades(pop) :
                                    Config(id).direction = direction}
                   IN  group # {} =>
                          /\ best \in group
                          /\ \A id \in group : pop[best].total_pnl >= pop[id].total_pnl
           IN  /\ \A i \in DOMAIN top : top[i] \in WithTrades(pop)
               /\ Len(top) <= 10
               /\ \A i, j \in DOMAIN top :
                     i < j => pop[top[i]].total_pnl >= pop[top[j]].total_pnl
               /\ rankings'.best_strategy \in WithTrades(pop)
               /\ \A id \in WithTrades(pop) :
                     pop[rankings'.best_strategy].total_pnl >= pop[id].total_pnl
               /\ BestOf(rankings'.best_long, "LONG")
               /\ BestOf(rankings'.best_short, "SHORT") ]_vars

\* A current ranking of more than ten strategies with trades, of both
\* directions and of different total_pnl.
C21_TopTenOfMore ==
    /\ rankings = Ranked(strategies, NoRankings)
    /\ Cardinality(WithTrades(strategies)) > 10
    /\ Len(rankings.top_strategies) = 10
    /\ rankings.best_long # None /\ rankings.best_short # None
    /\ strategies[rankings.top_strategies[1]].total_pnl
           > strategies[rankings.top_strategies[10]].total_pnl
    /\ \E id \in WithTrades(strategies) :
          /\ \A i \in DOMAIN rankings.top_strategies : rankings.top_strategies[i] # id
          /\ strategies[id].total_pnl
                 <= strategies[rankings.top_strategies[10]].total_pnl

\* C22: calculate_final_stats on a strategy with closed trades of which none
\* lost (no pnl_usdt < 0) sets profit_factor to 0 and runs to its end, the
\* drawdown it computes last included; on a strategy with no closed trade it
\* changes nothing.
C22_ProfitFactorGuard ==
    [][ nfeeds' = nfeeds =>
           \A id \in DOMAIN strategies :
              LET st    == strategies[id]
                  after == strategies'[id]
              IN  /\ st.total_trades = 0 => after = st
                  /\ (st.total_trades > 0
                        /\ \A i \in DOMAIN st.trade_history :
                              st.trade_history[i].pnl_usdt >= 0) =>
                         /\ after.profit_factor = 0
                         /\ after.win_rate =
                                (st.winning_trades * 10000) \div st.total_trades
                         /\ after.max_drawdown = 0 ]_vars

\* A ranked population with a strategy that only won, one that also lost and
\* one that never traded.
C22_OnlyWinners ==
    /\ rankings # NoRankings
    /\ \E id \in DOMAIN strategies :
          /\ strategies[id].total_trades > 0
          /\ strategies[id].winning_trades = strategies[id].total_trades
          /\ strategies[id].avg_win > 0
          /\ strategies[id].profit_factor = 0
    /\ \E id \in DOMAIN strategies :
          /\ strategies[id].winning_trades > 0
          /\ strategies[id].profit_factor > 0
    /\ \E id \in DOMAIN strategies :
          /\ strategies[id].total_trades = 0
          /\ strategies[id].win_rate = 0

\* C23: a pending order of a simulated bot is resolved within two candle
\* updates of its symbol: a candle that reaches the entry price fills it;
\* the first candle that does not leaves it waiting, the second cancels the
\* trade, with no PnL realized, and removes the symbol from active_trades,
\* pending_orders and trade_reduce_info.
C23_PendingResolved ==
    [][ nfeeds' = nfeeds + 1 =>
           \A b \in DOMAIN bots :
              LET symbol == tick'.symbol
                  candle == tick'.candle
              IN  symbol \in DOMAIN bots[b].pending_orders =>
                     LET pending == bots[b].pending_orders[symbol]
                         filled  == IF BotConfig(b).direction = "LONG"
                                    THEN candle.low <= pending.entry_price
                                    ELSE candle.high >= pending.entry_price
                         trade   == trades'[pending.trade_id]
                     IN  /\ pending.candles_waited < 2
                         /\ filled => symbol \notin DOMAIN bots'[b].pending_orders
                         /\ (~filled /\ pending.candles_waited = 0) =>
                               /\ symbol \in DOMAIN bots'[b].pending_orders
                               /\ bots'[b].pending_orders[symbol].candles_waited = 1
                         /\ (~filled /\ pending.candles_waited = 1) =>
                               /\ trade.status = "CANCELLED"
                               /\ trade.pnl_usdt = 0
                               /\ trade.exit_price = None
                               /\ symbol \notin DOMAIN bots'[b].active_trades
                               /\ symbol \notin DOMAIN bots'[b].pending_orders
                               /\ symbol \notin DOMAIN bots'[b].trade_reduce_info ]_vars

\* Bot b holds a filled, open position on A.
HoldsOpen(b) ==
    /\ "A" \in DOMAIN bots[b].active_trades
    /\ "A" \notin DOMAIN bots[b].pending_orders
    /\ trades[bots[b].active_trades["A"]].status = "OPEN"

\* C24: while candles of A keep arriving, every open position of a simulated
\* bot on A is closed in the end; once minutes held times reduce has reached
\* 100 the take-profit meets the stop-loss and the next candle of A closes
\* the trade at that price.
C24_ForcedRealization ==
    /\ \A b \in BotIds :
          HoldsOpen(b) ~>
             /\ "A" \notin DOMAIN bots[b].active_trades
             /\ \E i \in DOMAIN trades :
                   trades[i].bot_config_id = b /\ trades[i].status = "CLOSED"
    /\ [][ (now' = now /\ trades # <<>>) =>
              \A b \in BotIds :
                 (HoldsOpen(b) /\ ~Decaying(b, "A")) =>
                    LET trade == trades'[bots[b].active_trades["A"]]
                    IN  /\ "A" \notin DOMAIN bots'[b].active_trades
                        /\ trade.status = "CLOSED"
                        /\ trade.take_profit = trade.stop_loss
                        /\ trade.exit_price = trade.stop_loss ]_vars

\* A position that quiet candles left open until its take-profit had come
\* down to the stop-loss, closed there by the next candle.
C24_ClosedAtStopLoss ==
    \E i \in DOMAIN trades :
       /\ trades[i].status = "CLOSED"
       /\ trades[i].exit_reason = "TP_REDUCED"
       /\ trades[i].exit_price = trades[i].stop_loss
       /\ now >= trades[i].entry_time + 1200

\* C25: the decay is applied at most once per whole minute of the hold: once
\* a candle update has applied it in minute m (last_reduce_minute = m), no
\* later update in minute m changes the take-profit of the open trade, and
\* last_reduce_minute never decreases.
C25_ReduceOncePerMinute ==
    [][ nfeeds' = nfeeds + 1 =>
           \A b \in DOMAIN bots :
              LET symbol == tick'.symbol
              IN  (/\ symbol \in DOMAIN bots[b].active_trades
                   /\ symbol \in DOMAIN bots'[b].active_trades
                   /\ symbol \in DOMAIN bots[b].trade_reduce_info
                   /\ trades[bots[b].active_trades[symbol]].status = "OPEN") =>
                     LET id    == bots[b].active_trades[symbol]
                         info  == bots[b].trade_reduce_info[symbol]
                         after == bots'[b].trade_reduce_info[symbol]
                         m     == MinutesHeld(info, now)
                     IN  /\ after.last_reduce_minute >= info.last_reduce_minute
                         /\ (m > 0 /\ info.last_reduce_minute = m) =>
                               trades'[id].take_profit = trades[id].take_profit ]_vars

\* C26: a closed trade of a bot has exit reason TP, TP_REDUCED or SL, and the
\* candle update that closes a trade at its take-profit labels it TP_REDUCED
\* exactly when the decay changed the take-profit in that call of check_exit
\* (the take-profit differs from the one the call found), and TP otherwise.
C26_ExitReason ==
    [][ nfeeds' = nfeeds + 1 =>
           /\ \A i \in DOMAIN trades' :
                 trades'[i].status = "CLOSED" =>
                    trades'[i].exit_reason \in {"TP", "TP_REDUCED", "SL"}
           /\ \A b \in DOMAIN bots :
                 LET symbol == tick'.symbol
                 IN  (/\ symbol \in DOMAIN bots[b].active_trades
                      /\ trades[bots[b].active_trades[symbol]].status = "OPEN"
                      /\ trades'[bots[b].active_trades[symbol]].status = "CLOSED") =>
                        LET id     == bots[b].active_trades[symbol]
                            w      == [bots |-> bots, trades |-> trades]
                            found  == IF symbol \in DOMAIN bots[b].pending_orders
                                      THEN check_pending_order(w, b, symbol,
                                                               tick'.candle).trades[id]
                                      ELSE trades[id]
                            closed == trades'[id]
                        IN  /\ closed.exit_reason = "SL" =>
                                  closed.exit_price = closed.stop_loss
                            /\ closed.exit_reason # "SL" =>
                                  /\ closed.exit_price = closed.take_profit
                                  /\ closed.exit_reason = "TP_REDUCED"
                                        <=> closed.take_profit # found.take_profit ]_vars

\* A trade closed as TP at a take-profit that an earlier candle update of the
\* same minute had lowered: the decay did not act in the call that closed it.
C26_PlainAfterDecay ==
    \E i \in DOMAIN trades :
       /\ trades[i].status = "CLOSED"
       /\ trades[i].exit_reason = "TP"
       /\ trades[i].exit_price = trades[i].take_profit
       /\ trades[i].take_profit #
              BotTakeProfit(BotConfig(trades[i].bot_config_id), trades[i].entry_price)

C28_CandleWithoutPosition ==
    [][ nfeeds' = nfeeds + 1 =>
           LET S == tick'.symbol
           IN  /\ \A id \in DOMAIN strategies :
                     S \notin DOMAIN strategies[id].active_positions =>
                        strategies'[id] = strategies[id]
               /\ \A b \in DOMAIN bots :
                     (S \notin DOMAIN bots[b].active_trades
                        /\ S \notin DOMAIN bots[b].pending_orders) =>
                        /\ bots'[b] = bots[b]
                        /\ \A i \in DOMAIN trades :
                              trades[i].bot_config_id = b => trades'[i] = trades[i] ]_vars

\* A candle of B that would reach the stop-loss of a LONG entry at 100 has
\* just been delivered while a strategy and a bot hold A and nothing on B.
C28_OtherSymbolHeld ==
    /\ tick.symbol = "B"
    /\ tick.candle.low <= 98000
    /\ \E id \in DOMAIN strategies :
          /\ "A" \in DOMAIN strategies[id].active_positions
          /\ "B" \notin DOMAIN strategies[id].active_positions
          /\ strategies[id].active_positions["A"].direction = "LONG"
    /\ \E b \in DOMAIN bots :
          /\ "A" \in DOMAIN bots[b].active_trades
          /\ "B" \notin DOMAIN bots[b].active_trades
          /\ "B" \notin DOMAIN bots[b].pending_orders
          /\ trades[bots[b].active_trades["A"]].status = "OPEN"

\* C29: exits depend only on prices after the entry.  When a tick updates the
\* candle that was current when a strategy's position was opened and the
\* position is closed by it, the exit level lies within what the price has
\* done since: between the entry price and the tick's close, or at a high or
\* low of the candle that is new with this tick.
C29_PostEntryExit ==
    [][ nfeeds' = nfeeds + 1 =>
           LET S       == tick'.symbol
               history == candle_buffer[S][tick'.interval]
               before  == history[Len(history)]
               candle  == tick'.candle
           IN  (Len(history) > 0 /\ candle.timestamp = before.timestamp) =>
                  \A id \in DOMAIN strategies :
                     (/\ S \in DOMAIN strategies[id].active_positions
                      /\ S \notin DOMAIN strategies'[id].active_positions
                      /\ strategies[id].active_positions[S].entry_time
                            >= before.timestamp) =>
                        LET position == strategies[id].active_positions[S]
                            record   == strategies'[id].trade_history
                                            [Len(strategies'[id].trade_history)]
                            lowest   == IF candle.low < before.low THEN candle.low
                                        ELSE Min2(position.entry_price, candle.close)
                            highest  == IF candle.high > before.high THEN candle.high
                                        ELSE Max2(position.entry_price, candle.close)
                        IN  /\ record.reason \in {"TP", "SL"}
                            /\ lowest <= record.exit_price
                            /\ record.exit_price <= highest ]_vars

\* C30: a signal is emitted only by a tick of interval Min1 that leaves at
\* least 20 Min1 candles buffered for its symbol; a tick of any other interval
\* changes its own buffer and nothing else of the detector, without analysis;
\* the first tick of a (symbol, interval) becomes the one candle of its buffer
\* without analysis.
C30_AnalysisPreconditions ==
    [][ nfeeds' = nfeeds + 1 =>
           LET s  == tick'.symbol
               iv == tick'.interval
           IN  /\ emitted' # emitted =>
                     /\ iv = "Min1"
                     /\ Len(candle_history'[s]["Min1"]) >= 20
                     /\ emitted' = Append(emitted, emitted'[Len(emitted')])
                     /\ emitted'[Len(emitted')].signal.symbol = s
               /\ analysed' # "none" => iv = "Min1"
               /\ iv # "Min1" =>
                     /\ emitted' = emitted
                     /\ recent_pumps' = recent_pumps
                     /\ signal_tasks' = signal_tasks
                     /\ \A s2 \in Symbols, iv2 \in Intervals :
                           <<s2, iv2>> # <<s, iv>> =>
                              candle_history'[s2][iv2] = candle_history[s2][iv2]
               /\ candle_history[s][iv] = <<>> =>
                     /\ candle_history'[s][iv] = <<tick'.candle>>
                     /\ analysed' = "none"
                     /\ emitted' = emitted ]_vars

\* C30's case: a signal was emitted for A on its twentieth Min1 candle, and
\* the first tick of B has just been buffered without analysis.
C30_TwentiethCandleAndFirstTick ==
    /\ emitted # <<>>
    /\ emitted[Len(emitted)].signal.symbol = "A"
    /\ Len(candle_history["A"]["Min1"]) = 20
    /\ tick.symbol = "B"
    /\ candle_history["B"]["Min1"] = <<tick.candle>>
    /\ analysed = "none"

\* C31: whenever the detector marks recent_pumps[symbol], it has emitted one
\* signal for that symbol in the same step and created one task for the
\* callback with it; every emitted signal is handed to the callback once
\* (those handed over plus those waiting are those emitted), and a signal that
\* was emitted is eventually handed over: again and again no task is waiting.
C31_EmissionComplete ==
    /\ [][ \A s \in Symbols :
              (s \in DOMAIN recent_pumps'
                 /\ (s \notin DOMAIN recent_pumps \/ recent_pumps'[s] # recent_pumps[s])) =>
                 /\ Len(emitted') = Len(emitted) + 1
                 /\ emitted'[Len(emitted')].signal.symbol = s
                 /\ signal_tasks' = Append(signal_tasks, emitted'[Len(emitted')].signal) ]_vars
    /\ [](nsignals + Len(signal_tasks) = Len(emitted))
    /\ [][ nsignals' = nsignals + 1 =>
              delivered'.signal = emitted[nsignals + 1].signal ]_vars
    /\ []<>(signal_tasks = <<>>)

\* C31's case: A is marked in recent_pumps and the callback has run with the
\* signal that marked it.
C31_SignalHandedOver ==
    /\ "A" \in DOMAIN recent_pumps
    /\ emitted # <<>>
    /\ nsignals = Len(emitted)
    /\ delivered.signal = emitted[Len(emitted)].signal
    /\ emitted[Len(emitted)].at = recent_pumps["A"]

\* C32: a call of should_enter, of a strategy or of a bot, returns true if
\* and only if the signal's timeframe (1m when it carries none) is the
\* configured one, the price change of that timeframe and the volume ratio
\* reach their thresholds, the rsi is missing or reaches its threshold, the
\* confidence reaches its minimum, and each of the three optional filters is
\* switched off or met by a value the signal carries.
C32_ShouldEnterDefinition ==
    decision.computed =>
        LET config == decision.config
            signal == decision.signal
            Has(key) == key \in DOMAIN signal /\ signal[key] # None
            timeframe == IF "timeframe" \in DOMAIN signal THEN signal.timeframe ELSE "1m"
            change_key == IF config.timeframe = "1m" THEN "price_change_1m"
                          ELSE "price_change_5m"
            accepted ==
                /\ timeframe = config.timeframe
                /\ Has(change_key) /\ signal[change_key] >= config.price_increase_threshold
                /\ Has("volume_ratio") /\ signal.volume_ratio >= config.volume_multiplier
                /\ Has("rsi") => signal.rsi >= config.rsi_threshold
                /\ Has("confidence") /\ signal.confidence >= config.min_confidence
                /\ config.min_trend_strength > 0 =>
                      (Has("trend_strength")
                         /\ signal.trend_strength >= config.min_trend_strength)
                /\ config.require_breakout =>
                      ("is_breakout" \in DOMAIN signal /\ signal.is_breakout)
                /\ config.min_volume_consistency > 0 =>
                      (Has("volume_consistency")
                         /\ signal.volume_consistency >= config.min_volume_consistency)
        IN  /\ (decision.strategy = "True") <=> accepted
            /\ (decision.bot = "True") <=> accepted

\* C32's case: a configuration with the three optional filters switched on
\* has accepted a 5m signal without rsi.
C32_AllFiltersMet ==
    /\ decision.computed
    /\ decision.strategy = "True"
    /\ decision.bot = "True"
    /\ decision.config.timeframe = "5m"
    /\ decision.config.min_trend_strength > 0
    /\ decision.config.require_breakout
    /\ decision.config.min_volume_consistency > 0
    /\ "rsi" \notin DOMAIN decision.signal

\* C33: a position starts with highest_price = lowest_price = entry price;
\* after a candle of its symbol has been processed and the position is still
\* open, its highest_price is at least the candle's high and its lowest_price
\* at most the candle's low, LONG or SHORT, of a strategy or of a bot; and
\* highest_price never decreases, lowest_price never increases.
C33_ExtremesTracking ==
    [][ /\ \A id \in DOMAIN strategies : \A S \in DOMAIN strategies'[id].active_positions :
              LET new == strategies'[id].active_positions[S]
              IN  IF S \notin DOMAIN strategies[id].active_positions
                  THEN new.highest_price = new.entry_price
                          /\ new.lowest_price = new.entry_price
                  ELSE LET old == strategies[id].active_positions[S]
                       IN  /\ new.highest_price >= old.highest_price
                           /\ new.lowest_price <= old.lowest_price
                           /\ (nfeeds' = nfeeds + 1 /\ tick'.symbol = S) =>
                                 /\ new.highest_price >= tick'.candle.high
                                 /\ new.lowest_price <= tick'.candle.low
        /\ \A i \in DOMAIN trades' :
              IF i \notin DOMAIN trades
              THEN trades'[i].highest_price = trades'[i].entry_price
                      /\ trades'[i].lowest_price = trades'[i].entry_price
              ELSE (trades[i].status = "OPEN" /\ trades'[i].status = "OPEN") =>
                      /\ trades'[i].highest_price >= trades[i].highest_price
                      /\ trades'[i].lowest_price <= trades[i].lowest_price
                      /\ (nfeeds' = nfeeds + 1 /\ tick'.symbol = trades[i].symbol) =>
                            /\ trades'[i].highest_price >= tick'.candle.high
                            /\ trades'[i].lowest_price <= tick'.candle.low ]_vars

\* C34: every buffer of the detector and of the strategy manager holds at
\* most 100 candles, and a tick with a new timestamp that finds a buffer at
\* capacity drops the oldest candle and appends the new one.
C34_BoundedCandleHistory ==
    /\ [](\A s \in Symbols, iv \in Intervals :
             /\ Len(candle_history[s][iv]) <= 100
             /\ Len(candle_buffer[s][iv]) <= 100)
    /\ [][ nfeeds' = nfeeds + 1 =>
              LET s == tick'.symbol
                  iv == tick'.interval
                  Evicts(old, new) ==
                      (Len(old) = 100 /\ tick'.candle.timestamp > old[100].timestamp) =>
                         new = Append(Tail(old), tick'.candle)
              IN  /\ Evicts(candle_history[s][iv], candle_history'[s][iv])
                  /\ Evicts(candle_buffer[s][iv], candle_buffer'[s][iv]) ]_vars

\* C34's case: both buffers of A hold 100 candles, the candle at 60 s is gone
\* from both and the last tick is their newest candle.
C34_OldestEvicted ==
    /\ nfeeds >= 1
    /\ tick.symbol = "A" /\ tick.interval = "Min1"
    /\ Len(candle_history["A"]["Min1"]) = 100
    /\ Len(candle_buffer["A"]["Min1"]) = 100
    /\ candle_history["A"]["Min1"][1].timestamp > 60
    /\ candle_buffer["A"]["Min1"][1].timestamp > 60
    /\ candle_history["A"]["Min1"][100] = tick.candle
    /\ candle_buffer["A"]["Min1"][100] = tick.candle

\* C35: however the tasks of the ticks of a symbol are interleaved, at most
\* one signal is emitted for it per cooldown window: no two emissions for a
\* symbol are less than pump_cooldown_seconds apart, and at any moment at
\* most one emission of a symbol lies within the last pump_cooldown_seconds.
C35_NoDoubleEmission ==
    \A s \in Symbols :
        /\ Cardinality({i \in DOMAIN emitted :
                           /\ emitted[i].signal.symbol = s
                           /\ now - emitted[i].at < pump_cooldown_seconds}) <= 1
        /\ \A i \in DOMAIN emitted : \A j \in DOMAIN emitted :
              (i < j /\ emitted[i].signal.symbol = s /\ emitted[j].signal.symbol = s) =>
                 emitted[j].at - emitted[i].at >= pump_cooldown_seconds

\* C35's case: a task that emitted a signal for A waits at its await, and in
\* between the task of another tick of A that passes the pump gate has run
\* and stopped at the cooldown.
C35_SecondTickInCooldown ==
    /\ \E i \in DOMAIN callback_tasks :
          /\ callback_tasks[i].at = "notify_pump"
          /\ callback_tasks[i].symbol = "A"
    /\ analysed = "cooldown"
    /\ Len(emitted) = 1
    /\ AnalysisResult([s \in {} |-> 0], "A", candle_history["A"]["Min1"],
                      candle_history["A"]["Min5"], now) = "signal"

\* C36: a simulated trade whose entry order is still in pending_orders after
\* a step has not been closed by that step, and the step has not changed the
\* statistics of its bot.
C36_PnlOnlyForFilledTrades ==
    [][ \A b \in DOMAIN bots :
           \A S \in DOMAIN bots[b].pending_orders :
              (S \in DOMAIN bots'[b].pending_orders /\ tick'.symbol = S) =>
                 LET id == bots[b].pending_orders[S].trade_id
                 IN  /\ trades[id].status = "OPEN" => trades'[id].status = "OPEN"
                     /\ trades'[id].pnl_usdt = trades[id].pnl_usdt
                     /\ bots'[b].total_trades = bots[b].total_trades
                     /\ bots'[b].total_pnl = bots[b].total_pnl
                     /\ bots'[b].winning_trades = bots[b].winning_trades
                     /\ bots'[b].losing_trades = bots[b].losing_trades ]_vars

\* C37: for every strategy, in every state, total_trades = winning_trades +
\* losing_trades = len(pnl_history) (and = len(trade_history)), current_balance
\* = 1000 + total_pnl, total_pnl is the sum of pnl_history, and peak_balance >=
\* max(1000, current_balance); every step raises total_trades by the number of
\* positions the step closed.
C37_StatisticsAccounting ==
    /\ [](\A id \in DOMAIN strategies :
            LET st == strategies[id]
            IN  /\ st.total_trades = st.winning_trades + st.losing_trades
                /\ st.total_trades = Len(st.pnl_history)
                /\ st.total_trades = Len(st.trade_history)
                /\ st.winning_trades
                      = Cardinality({k \in DOMAIN st.pnl_history : st.pnl_history[k] > 0})
                /\ st.total_pnl = SumSeq(st.pnl_history)
                /\ st.current_balance = 1000 * 1000000 + st.total_pnl
                /\ st.peak_balance >= Max2(1000 * 1000000, st.current_balance))
    /\ [][ \A id \in DOMAIN strategies :
              strategies'[id].total_trades - strategies[id].total_trades
                 = Cardinality(DOMAIN strategies[id].active_positions
                                  \ DOMAIN strategies'[id].active_positions) ]_vars

\* C37's case: a strategy has closed a winning and a losing trade and its
\* balance stands below its peak, above 1000.
C37_WinThenLoss ==
    \E id \in DOMAIN strategies :
        /\ strategies[id].winning_trades >= 1
        /\ strategies[id].losing_trades >= 1
        /\ strategies[id].peak_balance > strategies[id].current_balance
        /\ strategies[id].current_balance > 1000 * 1000000

\* C38: over every step that leaves a strategy's position open, the
\* stop-loss of a LONG does not decrease and the stop-loss of a SHORT does
\* not increase, and without trailing_stop the stop-loss stays the one the
\* position was entered with.
C38_TrailingStopMonotone ==
    /\ [][ \A id \in DOMAIN strategies :
              \A S \in DOMAIN strategies[id].active_positions
                          \cap DOMAIN strategies'[id].active_positions :
                 LET old == strategies[id].active_positions[S]
                     new == strategies'[id].active_positions[S]
                 IN  /\ old.direction = "LONG" => new.stop_loss >= old.stop_loss
                     /\ old.direction = "SHORT" => new.stop_loss <= old.stop_loss
                     /\ ~Config(id).trailing_stop => new.stop_loss = old.stop_loss ]_vars
    /\ [](\A id \in DOMAIN strategies : \A S \in DOMAIN strategies[id].active_positions :
             LET position == strategies[id].active_positions[S]
                 entered  == NewPosition(Config(id), S, position.entry_price, 0).stop_loss
             IN  /\ ~Config(id).trailing_stop => position.stop_loss = entered
                 /\ position.direction = "LONG" => position.stop_loss >= entered
                 /\ position.direction = "SHORT" => position.stop_loss <= entered)

\* C38's case: a LONG and a SHORT position with trailing_stop are open with
\* their stops trailed past the entry stop, the LONG after a candle that did
\* not reach its highest price, and a LONG position without trailing_stop is
\* open with a highest price above its entry.
C38_TrailedAndStill ==
    /\ \E S \in Symbols :
          /\ S \in DOMAIN strategies[3].active_positions
          /\ strategies[3].active_positions[S].stop_loss
                > NewPosition(Config(3), S, strategies[3].active_positions[S].entry_price, 0).stop_loss
          /\ tick.symbol = S
          /\ tick.candle.high < strategies[3].active_positions[S].highest_price
          /\ S \in DOMAIN strategies[1].active_positions
          /\ strategies[1].active_positions[S].highest_price
                > strategies[1].active_positions[S].entry_price

\* C38's case for a SHORT: its stop has come down with the lowest price and
\* the position is still open.
C38_ShortTrailed ==
    \E S \in Symbols :
        /\ S \in DOMAIN strategies[2].active_positions
        /\ strategies[2].active_positions[S].stop_loss
              < NewPosition(Config(2), S, strategies[2].active_positions[S].entry_price, 0).stop_loss

\* C39: a message leaves the chat's buffer only in the removal of a send
\* task whose batch contained it, and every accepted message is in the
\* queue, in the buffer or in a batch that was transmitted.
C39_NoNotificationLost ==
    /\ \A k \in DOMAIN tele.removed :
          \A j \in DOMAIN tele.removed[k].messages :
             \E n \in DOMAIN tele.removed[k].batch :
                tele.removed[k].batch[n] = tele.removed[k].messages[j]
    /\ \A m \in 1..tele.accepted :
          \/ \E j \in DOMAIN tele.queue : tele.queue[j] = m
          \/ \E j \in DOMAIN tele.message_buffer : tele.message_buffer[j] = m
          \/ \E k \in DOMAIN tele.transmitted :
                \E j \in DOMAIN tele.transmitted[k] : tele.transmitted[k][j] = m

\* C40: in every state between two handler runs, every symbol of a bot's
\* pending_orders or trade_reduce_info is in its active_trades, and every
\* trade that active_trades refers to is OPEN.
C40_BookkeepingConsistency ==
    \A b \in DOMAIN bots :
        /\ \A S \in DOMAIN bots[b].pending_orders : S \in DOMAIN bots[b].active_trades
        /\ \A S \in DOMAIN bots[b].trade_reduce_info : S \in DOMAIN bots[b].active_trades
        /\ \A S \in DOMAIN bots[b].active_trades :
              trades[bots[b].active_trades[S]].status = "OPEN"

=============================================================================
